---------------------------- MODULE Spec2Model ----------------------------
(***************************************************************************)
(* A model of the HandballApp extraction tools: the drill segmenter and    *)
(* phase classifier of pdf_extractor.py, the page-image association of     *)
(* pdf_extractor.py and pdf_to_images.py, and the batch run of             *)
(* update_library.  Texts, titles and file names are strings, handled      *)
(* character by character as the Python code handles them.                 *)
(***************************************************************************)
EXTENDS Integers, Sequences, FiniteSets, TLC

VARIABLES
  pc,             \* position of the run that the specification models
  title,          \* _classify_phase: its argument
  phase,          \* _classify_phase: its result
  session_id,     \* HandballPDFExtractor.session_id
  extract_images, \* HandballPDFExtractor.extract_images
  doc,            \* the open document: a sequence of pages
  drills,         \* the drill list of the document
  all_images,     \* the page images the association step worked with
  disk,           \* pdf_dir: the content of each PDF file in it, by file name
  library_json,   \* the session list in the file at library_path
  output_path,    \* update_library's output_path ("" for None)
  output_json,    \* the session list in the file at output_path, when another file
  writes,         \* how often update_library wrote a library file
  library,        \* update_library: library['sessions']
  existing_ids,   \* update_library: existing_ids
  pdf_files,      \* update_library: pdf_files
  file_pos,       \* update_library: the position of the loop in pdf_files
  new_sessions,   \* update_library: new_sessions
  extractor,      \* update_library: the document the variable extractor holds (0: none)
  open_docs,      \* the documents, by position in pdf_files, whose handle is open
  log,            \* what update_library printed about each file
  library_data,   \* create_hblib: the session list of the library file it loads
  files_on_disk,  \* create_hblib: the image paths for which os.path.exists holds
  archive_json,   \* the session list of library.json inside the archive
  manifest,       \* create_hblib: manifest['drills'], by drill_id
  archive,        \* the names of the archive's entries, in the order written
  manifest_json,  \* update_manifest: the content of the file at manifest_path
  calls,          \* how often update_manifest was called
  text,           \* extract_equipment: its argument
  equipment,      \* extract_equipment: its result
  equipment_tags, \* _extract_equipment_tags: its result
  script,         \* the command-line tool that is run
  argv,           \* sys.argv of the run
  stdout,         \* what the main block printed: "usage", "unknown", "traceback"
  exit_status,    \* the exit status of the process (-1 while it has not ended)
  called,         \* the function the main block called, with its arguments
  optimized       \* optimize_library_json: its result

segmenter_vars == <<session_id, extract_images, doc, drills, all_images>>
classify_vars  == <<title, phase>>
update_vars    == <<disk, library_json, output_path, output_json, writes, library,
                    existing_ids, pdf_files, file_pos, new_sessions, extractor,
                    open_docs, log>>

package_vars   == <<library_data, files_on_disk, archive_json, manifest, archive>>

manifest_vars == <<manifest_json, calls>>

equipment_vars == <<text, equipment, equipment_tags>>

cli_vars == <<script, argv, stdout, exit_status, called>>

optimize_vars == <<optimized>>

\* The state of the tools other than the extractor.
tool_vars == <<package_vars, manifest_vars, equipment_vars, cli_vars, optimize_vars>>

vars == <<pc, classify_vars, segmenter_vars, update_vars, tool_vars>>

(***************************************************************************)
(* Bounds of the model.                                                    *)
(***************************************************************************)
MaxWords == 2
MaxPages == 2
MaxFiles == 3
MaxLib   == 2

(***************************************************************************)
(* Strings.                                                                *)
(***************************************************************************)
CharAt(s, i) == SubSeq(s, i, i)

\* The characters i..j of s that exist, as a Python slice clamps its end.
Slice(s, i, j) == SubSeq(s, i, IF j > Len(s) THEN Len(s) ELSE j)

\* Python's `k in s` for strings.
Contains(s, k) ==
  \E i \in 1..(Len(s) - Len(k) + 1) : SubSeq(s, i, i + Len(k) - 1) = k

UpperChars == "ABCDEFGHIJKLMNOPQRSTUVWXYZÄÖÜ"
LowerChars == "abcdefghijklmnopqrstuvwxyzäöü"

LowerChar(c) ==
  IF \E i \in 1..Len(UpperChars) : CharAt(UpperChars, i) = c
    THEN CharAt(LowerChars, CHOOSE i \in 1..Len(UpperChars) : CharAt(UpperChars, i) = c)
    ELSE c

\* str.lower()
RECURSIVE Lower(_)
Lower(s) ==
  IF s = "" THEN "" ELSE LowerChar(CharAt(s, 1)) \o Lower(SubSeq(s, 2, Len(s)))

AnyWordIn(words, s) == \E w \in words : Contains(s, w)

(***************************************************************************)
(* _classify_phase: the keyword groups, and the cascade that tests them.   *)
(***************************************************************************)
WarmupWords       == {"einlaufen", "aufwärmen", "warm", "dehnen"}
KoordinationWords == {"koordination", "lauf"}
BallhandlingWords == {"ballgewöhnung", "ballhandling", "passen"}
TorhueterWords    == {"torhüter", "torwart", "einwerfen"}
WurfserieWords    == {"wurfserie", "werfen"}
AngriffWords      == {"angriff", "offensive"}
AbwehrWords       == {"abwehr", "defensive"}
SpielWords        == {"spiel", "abschluss"}

\* A cascade that tests the offense group before the warm-up group.
ClassifyLowerOffenseFirst(title_lower) ==
  IF AnyWordIn(AngriffWords, title_lower) THEN "Angriff"
  ELSE IF AnyWordIn(WarmupWords, title_lower) THEN "Warm-up"
  ELSE IF AnyWordIn(KoordinationWords, title_lower) THEN "Koordination"
  ELSE IF AnyWordIn(BallhandlingWords, title_lower) THEN "Ballhandling"
  ELSE IF AnyWordIn(TorhueterWords, title_lower) THEN "Torhüter"
  ELSE IF AnyWordIn(WurfserieWords, title_lower) THEN "Wurfserie"
  ELSE IF AnyWordIn(AbwehrWords, title_lower) THEN "Abwehr"
  ELSE IF AnyWordIn(SpielWords, title_lower) THEN "Spiel"
  ELSE "Angriff"

\* A cascade that falls back to the game phase when no group matches.
ClassifyLowerSpielFallback(title_lower) ==
  IF AnyWordIn(WarmupWords, title_lower) THEN "Warm-up"
  ELSE IF AnyWordIn(KoordinationWords, title_lower) THEN "Koordination"
  ELSE IF AnyWordIn(BallhandlingWords, title_lower) THEN "Ballhandling"
  ELSE IF AnyWordIn(TorhueterWords, title_lower) THEN "Torhüter"
  ELSE IF AnyWordIn(WurfserieWords, title_lower) THEN "Wurfserie"
  ELSE IF AnyWordIn(AngriffWords, title_lower) THEN "Angriff"
  ELSE IF AnyWordIn(AbwehrWords, title_lower) THEN "Abwehr"
  ELSE IF AnyWordIn(SpielWords, title_lower) THEN "Spiel"
  ELSE "Spiel"

\* The if/elif cascade of _classify_phase over title_lower.
ClassifyLower(title_lower) ==
  IF AnyWordIn(WarmupWords, title_lower) THEN "Warm-up"
  ELSE IF AnyWordIn(KoordinationWords, title_lower) THEN "Koordination"
  ELSE IF AnyWordIn(BallhandlingWords, title_lower) THEN "Ballhandling"
  ELSE IF AnyWordIn(TorhueterWords, title_lower) THEN "Torhüter"
  ELSE IF AnyWordIn(WurfserieWords, title_lower) THEN "Wurfserie"
  ELSE IF AnyWordIn(AngriffWords, title_lower) THEN "Angriff"
  ELSE IF AnyWordIn(AbwehrWords, title_lower) THEN "Abwehr"
  ELSE IF AnyWordIn(SpielWords, title_lower) THEN "Spiel"
  ELSE "Angriff"

ClassifyPhase(t) == ClassifyLower(Lower(t))

(***************************************************************************)
(* Characters and numbers in text.                                         *)
(***************************************************************************)
Digits     == {"0", "1", "2", "3", "4", "5", "6", "7", "8", "9"}
Space      == {" ", "\n", "\t"}
ColonSpace == Space \cup {":"}

DigitChars == "0123456789"
DigitVal(c) == (CHOOSE i \in 1..10 : CharAt(DigitChars, i) = c) - 1

\* int(s) for a string of digits
RECURSIVE ParseInt(_)
ParseInt(s) ==
  IF s = "" THEN 0
  ELSE 10 * ParseInt(SubSeq(s, 1, Len(s) - 1)) + DigitVal(CharAt(s, Len(s)))

\* str(n), as an f-string formats a non-negative int
RECURSIVE IntToStr(_)
IntToStr(n) ==
  IF n < 10 THEN CharAt(DigitChars, n + 1)
  ELSE IntToStr(n \div 10) \o CharAt(DigitChars, (n % 10) + 1)

ZeroPad3(s) ==
  IF Len(s) = 1 THEN "00" \o s ELSE IF Len(s) = 2 THEN "0" \o s ELSE s

\* f"{n:03d}"
Pad3(n) == ZeroPad3(IntToStr(n))

\* The first position from i on whose character is not in cls (Len(s) + 1
\* when there is none): where a greedy run of cls characters ends.
RunEnd(s, i, cls) ==
  CHOOSE j \in i..(Len(s) + 1) :
    /\ \A k \in i..(j - 1) : CharAt(s, k) \in cls
    /\ j = Len(s) + 1 \/ CharAt(s, j) \notin cls

\* The last position up to i whose character is not in cls (0 when there is
\* none).
RunStart(s, i, cls) ==
  CHOOSE j \in 0..i :
    /\ \A k \in (j + 1)..i : CharAt(s, k) \in cls
    /\ j = 0 \/ CharAt(s, j) \notin cls

\* str.strip()
Strip(s) == SubSeq(s, RunEnd(s, 1, Space), RunStart(s, Len(s), Space))

(***************************************************************************)
(* The drill-header pattern of extract_drills, matched as re.finditer      *)
(* matches it with re.IGNORECASE:                                          *)
(*   (?:Übung|Drill|Teil)\s*(\d+)[:\s]+(.*?)(?:\((\d+)\s*Min)             *)
(* Each greedy run is followed by characters outside its class, so that    *)
(* only the longest run can lead to a match; .*? takes the fewest          *)
(* characters of the line.                                                 *)
(***************************************************************************)
NoMatch == [ok |-> FALSE]

\* (?:Übung|Drill|Teil) at position i: the length of the marker, or 0.
MarkerLen(s, i) ==
  IF Lower(Slice(s, i, i + 4)) = "übung" THEN 5
  ELSE IF Lower(Slice(s, i, i + 4)) = "drill" THEN 5
  ELSE IF Lower(Slice(s, i, i + 3)) = "teil" THEN 4
  ELSE 0

\* Min after the digits that end before e and the white space from e on: the
\* end of the match, or 0.
MinEnd(s, j, e, f) ==
  IF e > j + 1 /\ Lower(Slice(s, f, f + 2)) = "min" THEN f + 3 ELSE 0

DigitsThenMin(s, j, e) == MinEnd(s, j, e, RunEnd(s, e, Space))

\* \((\d+)\s*Min at position j: the end of the match, or 0.
DurationEnd(s, j) ==
  IF j > Len(s) \/ CharAt(s, j) # "(" THEN 0
  ELSE DigitsThenMin(s, j, RunEnd(s, j + 1, Digits))

\* (.*?) from position d: the first position on the line of d where the
\* duration part matches, or 0.
RECURSIVE FirstDuration(_, _)
FirstDuration(s, d) ==
  IF DurationEnd(s, d) > 0 THEN d
  ELSE IF d > Len(s) \/ CharAt(s, d) = "\n" THEN 0
  ELSE FirstDuration(s, d + 1)

\* The match whose number is s[b..c-1], whose title starts at d and whose
\* duration part starts at j.
MatchWith(s, b, c, d, j) ==
  IF j = 0 THEN NoMatch
  ELSE [ok    |-> TRUE,
        num   |-> SubSeq(s, b, c - 1),
        title |-> SubSeq(s, d, j - 1),
        dur   |-> SubSeq(s, j + 1, RunEnd(s, j + 1, Digits) - 1),
        end   |-> DurationEnd(s, j)]

\* [:\s]+ from position c on, after the number s[b..c-1]
SeparatorAt(s, b, c, d) ==
  IF c = b \/ d = c THEN NoMatch ELSE MatchWith(s, b, c, d, FirstDuration(s, d))

\* (\d+) from position b on
NumberAt(s, b, c) == SeparatorAt(s, b, c, RunEnd(s, c, ColonSpace))

\* \s* after a marker of length len at position i
AfterMarker(s, i, len) ==
  IF len = 0 THEN NoMatch
  ELSE NumberAt(s, RunEnd(s, i + len, Space),
                RunEnd(s, RunEnd(s, i + len, Space), Digits))

\* The match that starts at position i, if there is one.
MatchAt(s, i) == AfterMarker(s, i, MarkerLen(s, i))

\* re.finditer: the matches from position i on, left to right, not overlapping.
RECURSIVE FindIter(_, _)
FindNext(s, i, m) ==
  IF m.ok THEN <<m>> \o FindIter(s, m.end) ELSE FindIter(s, i + 1)

FindIter(s, i) ==
  IF i > Len(s) THEN <<>> ELSE FindNext(s, i, MatchAt(s, i))

\* The page texts the model draws documents from.
PageTexts ==
  {"",
   "Übung 1: Aufwärmen (15 Min)",
   "Drill 2 Passen (10 min)\nTEIL 3: Angriff warm (0 Min)",
   "Übung 1: Werfen\nText",
   "Teil 1: Abwehr Übung 2: Spiel (20 Min)",
   "Trainingseinheit 184\nSchwerpunkt: Angriff"}

\* The matches of the pattern on each of these page texts.
HeaderMatches == [t \in PageTexts |-> FindIter(t, 1)]

(***************************************************************************)
(* Drill records.                                                          *)
(***************************************************************************)
EmptyText ==
  [preface |-> "", setup |-> "", execution |-> "", coaching_points |-> "",
   variations |-> "", goal |-> "", raw_rest |-> ""]

EmptyBullets ==
  [setup |-> <<>>, execution |-> <<>>, coaching_points |-> <<>>,
   variations |-> <<>>, goal |-> <<>>]

DrillTags(gk) ==
  [formation |-> "unbekannt", concept_tags |-> <<>>,
   drill_level |-> "unbekannt", requires_goalkeeper |-> gk]

DrillId(sid, num) == IntToStr(sid) \o "-" \o num

\* A drill whose cumulative_min leaves out its own duration.
HeaderDrillStaleCumulative(sid, page_num, drill_num, drill_title, duration, cumulative_min) ==
  [drill_id          |-> DrillId(sid, drill_num),
   title             |-> drill_title,
   duration_min      |-> duration,
   cumulative_min    |-> cumulative_min - duration,
   phase             |-> ClassifyPhase(drill_title),
   source_page_start |-> page_num,
   text              |-> EmptyText,
   text_bullets      |-> EmptyBullets,
   tags              |-> DrillTags(FALSE),
   images            |-> <<>>]

\* The drill dictionary of one header match; cumulative_min is the counter
\* after the drill's duration was added to it.
HeaderDrill(sid, page_num, drill_num, drill_title, duration, cumulative_min) ==
  [drill_id          |-> DrillId(sid, drill_num),
   title             |-> drill_title,
   duration_min      |-> duration,
   cumulative_min    |-> cumulative_min,
   phase             |-> ClassifyPhase(drill_title),
   source_page_start |-> page_num,
   text              |-> EmptyText,
   text_bullets      |-> EmptyBullets,
   tags              |-> DrillTags(FALSE),
   images            |-> <<>>]

\* Matches numbered with the 0-based index of their page.
WithPageZeroBased(ms, page_num) ==
  [k \in 1..Len(ms) |-> [page |-> page_num - 1, m |-> ms[k]]]

WithPage(ms, page_num) == [k \in 1..Len(ms) |-> [page |-> page_num, m |-> ms[k]]]

\* The header matches of the pages from page page_num on, in page order and,
\* within a page, in order of appearance, each with its 1-based page number.
RECURSIVE PageMatches(_, _)
PageMatches(texts, page_num) ==
  IF page_num > Len(texts) THEN <<>>
  ELSE WithPage(HeaderMatches[texts[page_num]], page_num)
       \o PageMatches(texts, page_num + 1)

\* match.group(3) always took part in a match, so that the default of 10
\* minutes is never taken.
DurationOf(m) == ParseInt(m.dur)

\* The loops of extract_drills: one drill per match, the running counter
\* cumulative_min threaded through.
RECURSIVE DrillsOf(_, _, _)
DrillsWith(sid, hs, cumulative_min) ==
  << HeaderDrill(sid, Head(hs).page, Head(hs).m.num, Strip(Head(hs).m.title),
                 DurationOf(Head(hs).m), cumulative_min) >>
  \o DrillsOf(sid, Tail(hs), cumulative_min)

DrillsOf(sid, hs, cumulative_min) ==
  IF hs = <<>> THEN <<>>
  ELSE DrillsWith(sid, hs, cumulative_min + DurationOf(Head(hs).m))

MatchedDrills(sid, texts) == DrillsOf(sid, PageMatches(texts, 1), 0)

(***************************************************************************)
(* _create_default_drills.                                                 *)
(***************************************************************************)
DefaultPage == 2

\* A template whose main part lasts 30 minutes.
DefaultPhasesShortMain ==
  << <<"Einlaufen/Dehnen", "Warm-up", 15>>,
     <<"kleines Spiel", "Spiel", 10>>,
     <<"Ballgewöhnung", "Ballhandling", 10>>,
     <<"Torhüter einwerfen", "Torhüter", 10>>,
     <<"Hauptteil", "Angriff", 30>>,
     <<"Abschlussspiel", "Spiel", 10>> >>

DefaultPhases ==
  << <<"Einlaufen/Dehnen", "Warm-up", 15>>,
     <<"kleines Spiel", "Spiel", 10>>,
     <<"Ballgewöhnung", "Ballhandling", 10>>,
     <<"Torhüter einwerfen", "Torhüter", 10>>,
     <<"Hauptteil", "Angriff", 35>>,
     <<"Abschlussspiel", "Spiel", 10>> >>

RECURSIVE DefaultFrom(_, _, _)
DefaultFrom(sid, idx, cumulative) ==
  IF idx > Len(DefaultPhases) THEN <<>>
  ELSE LET p == DefaultPhases[idx] IN
       << [drill_id          |-> DrillId(sid, IntToStr(idx)),
           title             |-> p[1],
           duration_min      |-> p[3],
           cumulative_min    |-> cumulative + p[3],
           phase             |-> p[2],
           source_page_start |-> DefaultPage,
           text              |-> EmptyText,
           text_bullets      |-> EmptyBullets,
           tags              |-> DrillTags(p[2] = "Torhüter"),
           images            |-> <<>>] >>
       \o DefaultFrom(sid, idx + 1, cumulative + p[3])

CreateDefaultDrills(sid) == DefaultFrom(sid, 1, 0)

(***************************************************************************)
(* Page images: extract_images_from_page, extract_all_pages_from_pdf, and  *)
(* the association of images with drills.                                  *)
(***************************************************************************)
ImageDir(sid) == "drill_images/TE_" \o Pad3(sid) \o "/"

\* The images of the xrefs of a page from index img_index on; the
\* extraction of a "bad" xref raises and is skipped with a warning.
RECURSIVE XrefImages(_, _, _, _)
XrefImages(sid, page_num, xrefs, img_index) ==
  IF img_index > Len(xrefs) THEN <<>>
  ELSE (IF xrefs[img_index] = "bad" THEN <<>>
        ELSE << [path  |-> ImageDir(sid) \o IntToStr(sid) \o "-" \o IntToStr(page_num)
                           \o "_img" \o IntToStr(img_index) \o "." \o xrefs[img_index],
                 page  |-> page_num,
                 order |-> img_index] >>)
       \o XrefImages(sid, page_num, xrefs, img_index + 1)

ExtractImagesFromPage(sid, pages, page_num) ==
  IF pages[page_num].listable
    THEN XrefImages(sid, page_num, pages[page_num].xrefs, 1)
    ELSE <<>>

RECURSIVE ExtractImagesFrom(_, _, _)
ExtractImagesFrom(sid, pages, page_num) ==
  IF page_num > Len(pages) THEN <<>>
  ELSE ExtractImagesFromPage(sid, pages, page_num)
       \o ExtractImagesFrom(sid, pages, page_num + 1)

\* extract_all_pages_from_pdf: one full-page image per page
ExtractAllPagesFromPdf(sid, pages) ==
  [p \in 1..Len(pages) |->
     [path  |-> ImageDir(sid) \o "TE_" \o Pad3(sid) \o "_page_" \o IntToStr(p) \o ".png",
      page  |-> p,
      order |-> 1,
      type  |-> "full_page"]]

\* An association that takes the drill's page as a 0-based page index.
DrillImagesZeroBased(images, drill) ==
  SelectSeq(images, LAMBDA img : img.page = drill.source_page_start - 1)

\* [img for img in images if img["page"] == drill_page]
DrillImages(images, drill) ==
  SelectSeq(images, LAMBDA img : img.page = drill.source_page_start)

AssignImages(ds, images) ==
  [i \in 1..Len(ds) |-> [ds[i] EXCEPT !.images = DrillImages(images, ds[i])]]

(***************************************************************************)
(* extract_drills.                                                         *)
(***************************************************************************)
PageTextsOf(pages) == [p \in 1..Len(pages) |-> pages[p].text]

\* Lines 240-241: the default template when no drill was found.
OrDefault(sid, ds) == IF ds = <<>> THEN CreateDefaultDrills(sid) ELSE ds

DrillsOrDefault(sid, texts) == OrDefault(sid, MatchedDrills(sid, texts))

\* Lines 244-253: the images of all pages, distributed to the drills.
WithImages(sid, pages, with_images, ds) ==
  IF with_images THEN AssignImages(ds, ExtractImagesFrom(sid, pages, 1)) ELSE ds

ExtractDrills(sid, pages, with_images) ==
  WithImages(sid, pages, with_images, DrillsOrDefault(sid, PageTextsOf(pages)))

(***************************************************************************)
(* The titles the classifier is run on: up to MaxWords words, joined by    *)
(* blanks.                                                                 *)
(***************************************************************************)
TitleWords ==
  {"Aufwärmen", "Einlaufen", "Angriff", "OFFENSIVE", "Passen", "Torwart",
   "Einwerfen", "Abwehr", "Abschlussspiel", "Hauptteil", "Koordination",
   "Wurfserie"}

RECURSIVE TitlesOf(_)
TitlesOf(n) ==
  IF n = 0 THEN {""}
  ELSE LET shorter == TitlesOf(n - 1) IN
       shorter \cup {IF t = "" THEN w ELSE t \o " " \o w : t \in shorter, w \in TitleWords}

Titles == TitlesOf(MaxWords)

\* The titles of the default template.
DefaultTitles == {DefaultPhases[k][1] : k \in 1..Len(DefaultPhases)}

(***************************************************************************)
(* The documents the segmenter is run on: up to MaxPages pages, each a     *)
(* page text with the embedded images (xrefs) of the page.  listable is    *)
(* whether page.get_images succeeds, readable whether page.get_text does.  *)
(***************************************************************************)
PageXrefs ==
  {[listable |-> TRUE,  xrefs |-> <<>>],
   [listable |-> TRUE,  xrefs |-> <<"png", "bad", "jpeg">>],
   [listable |-> FALSE, xrefs |-> <<"png">>]}

Pages ==
  {[text |-> t, readable |-> TRUE, listable |-> x.listable, xrefs |-> x.xrefs] :
     t \in PageTexts, x \in PageXrefs}

RECURSIVE DocsOf(_)
DocsOf(n) ==
  IF n = 0 THEN {<<>>}
  ELSE LET shorter == DocsOf(n - 1) IN
       shorter \cup {Append(d, p) : d \in shorter, p \in Pages}

Docs == DocsOf(MaxPages)

SessionIds == {7, 184}

NoDrills == <<>>

\* update_library is not running.
NoUpdate ==
  /\ disk = <<>>
  /\ library_json = <<>>
  /\ output_path = ""
  /\ output_json = <<>>
  /\ writes = 0
  /\ library = <<>>
  /\ existing_ids = {}
  /\ pdf_files = <<>>
  /\ file_pos = 0
  /\ new_sessions = <<>>
  /\ extractor = 0
  /\ open_docs = {}
  /\ log = <<>>

\* create_hblib is not running.
NoPackage ==
  /\ library_data = <<>>
  /\ files_on_disk = {}
  /\ archive_json = <<>>
  /\ manifest = <<>>
  /\ archive = <<>>

\* The file at manifest_path, when there is none.
AbsentManifest ==
  [exists |-> FALSE, version |-> "", has_changelog |-> FALSE, changelog |-> <<>>]

\* update_manifest is not running.
NoManifest ==
  /\ manifest_json = AbsentManifest
  /\ calls = 0

\* extract_equipment is not running.
NoEquipment ==
  /\ text = ""
  /\ equipment = <<>>
  /\ equipment_tags = <<>>

\* The main block called no function.
NoCall == [function |-> "", args |-> <<>>]

\* No command-line tool is running.
NoCli ==
  /\ script = ""
  /\ argv = <<>>
  /\ stdout = <<>>
  /\ exit_status = -1
  /\ called = NoCall

\* optimize_library_json is not running.
NoOptimize == optimized = <<>>

\* None of the tools other than the extractor is running.
NoTools == NoPackage /\ NoManifest /\ NoEquipment /\ NoCli /\ NoOptimize

InitClassify ==
  /\ pc = "classify"
  /\ title \in Titles \cup DefaultTitles
  /\ phase = ""
  /\ session_id = 0
  /\ extract_images = FALSE
  /\ doc = <<>>
  /\ drills = NoDrills
  /\ all_images = <<>>
  /\ NoUpdate
  /\ NoTools

Classify ==
  /\ pc = "classify"
  /\ phase' = ClassifyPhase(title)
  /\ pc' = "classified"
  /\ UNCHANGED <<title, segmenter_vars, update_vars, tool_vars>>

NextClassify == Classify

SpecClassify == InitClassify /\ [][NextClassify]_vars

(***************************************************************************)
(* The segmenter run on one document, and the page renderer run on the     *)
(* session it gave.                                                        *)
(***************************************************************************)
InitDrills ==
  /\ pc = "segment"
  /\ title = ""
  /\ phase = ""
  /\ session_id \in SessionIds
  /\ extract_images \in BOOLEAN
  /\ doc \in Docs
  /\ drills = NoDrills
  /\ all_images = <<>>
  /\ NoUpdate
  /\ NoTools

\* HandballPDFExtractor.extract_drills
RunExtractDrills ==
  /\ pc = "segment"
  /\ drills' = ExtractDrills(session_id, doc, extract_images)
  /\ all_images' = IF extract_images THEN ExtractImagesFrom(session_id, doc, 1) ELSE <<>>
  /\ pc' = "segmented"
  /\ UNCHANGED <<tool_vars, classify_vars, session_id, extract_images, doc, update_vars>>

\* update_library_with_page_images, for the session of this document: every
\* page renders.
RunPageImages ==
  /\ pc = "segmented"
  /\ all_images' = ExtractAllPagesFromPdf(session_id, doc)
  /\ drills' = AssignImages(drills, ExtractAllPagesFromPdf(session_id, doc))
  /\ pc' = "paged"
  /\ UNCHANGED <<tool_vars, classify_vars, session_id, extract_images, doc, update_vars>>

\* update_library_with_page_images: rendering a page raises, which nothing
\* catches; the run ends and the library is not written.
RunPageImagesRaises ==
  /\ pc = "segmented"
  /\ doc # <<>>
  /\ pc' = "render_failed"
  /\ UNCHANGED <<tool_vars, classify_vars, segmenter_vars, update_vars>>

NextDrills == RunExtractDrills \/ RunPageImages \/ RunPageImagesRaises

SpecDrills == InitDrills /\ [][NextDrills]_vars

(***************************************************************************)
(* File names: the session id in a name, and the order of sorted(...).     *)
(***************************************************************************)
\* The characters of the file names, in code point order.
CodeOrder == "./0123456789ABCDEFGHIJKLMNOPQRSTUVWXYZ_abcdefghijklmnopqrstuvwxyz"

CharCode(c) == CHOOSE i \in 1..Len(CodeOrder) : CharAt(CodeOrder, i) = c

\* a < b for strings, as Python compares them
RECURSIVE StrLess(_, _)
StrLess(a, b) ==
  IF b = "" THEN FALSE
  ELSE IF a = "" THEN TRUE
  ELSE IF CharAt(a, 1) # CharAt(b, 1) THEN CharCode(CharAt(a, 1)) < CharCode(CharAt(b, 1))
  ELSE StrLess(SubSeq(a, 2, Len(a)), SubSeq(b, 2, Len(b)))

\* A file list in descending order.
RECURSIVE SortedFilesDescending(_)
SortedFilesDescending(names) ==
  IF names = {} THEN <<>>
  ELSE LET last == CHOOSE n \in names : \A m \in names \ {n} : StrLess(m, n) IN
       <<last>> \o SortedFilesDescending(names \ {last})

\* sorted(Path(pdf_dir).glob('*.pdf'))
RECURSIVE SortedFiles(_)
SortedFiles(names) ==
  IF names = {} THEN <<>>
  ELSE LET first == CHOOSE n \in names : \A m \in names \ {n} : StrLess(n, m) IN
       <<first>> \o SortedFiles(names \ {first})

\* re.search(r'(\d+)', name)
HasDigits(name) == \E i \in 1..Len(name) : CharAt(name, i) \in Digits

\* int(match.group(1)): the first run of digits of the name
FileId(name) ==
  LET ds    == {i \in 1..Len(name) : CharAt(name, i) \in Digits}
      start == CHOOSE i \in ds : \A j \in ds : i <= j
  IN ParseInt(SubSeq(name, start, RunEnd(name, start, Digits) - 1))

(***************************************************************************)
(* Sessions and the library.                                               *)
(***************************************************************************)
\* extract_text_by_page raises when a page cannot be read.
Readable(pages) == \A p \in 1..Len(pages) : pages[p].readable

\* extract_session, for a document whose pages can be read
ExtractSession(name, sid, pages, with_images) ==
  [source_file |-> name,
   id          |-> sid,
   drills      |-> ExtractDrills(sid, pages, with_images)]

SessionIdsOf(sessions) == {sessions[i].id : i \in 1..Len(sessions)}

\* A merge that leaves the sessions in the order they were put together.
SortByIdUnsorted(sessions) == sessions

RECURSIVE InsertById(_, _)
InsertById(sorted, x) ==
  IF sorted = <<>> THEN <<x>>
  ELSE IF sorted[Len(sorted)].id <= x.id THEN Append(sorted, x)
  ELSE Append(InsertById(SubSeq(sorted, 1, Len(sorted) - 1), x), sorted[Len(sorted)])

RECURSIVE SortFrom(_, _)
SortFrom(sessions, sorted) ==
  IF sessions = <<>> THEN sorted
  ELSE SortFrom(Tail(sessions), InsertById(sorted, Head(sessions)))

\* library['sessions'].sort(key=lambda x: x['id']): a stable sort
SortById(sessions) == SortFrom(sessions, <<>>)

(***************************************************************************)
(* The inputs of update_library: the PDF files of pdf_dir with what each   *)
(* holds, and the library file.                                            *)
(***************************************************************************)
FileNames == {"TE_184.pdf", "TE_184_v2.pdf", "TE_7.pdf", "notes.pdf"}

GoodPage ==
  [text |-> "Übung 1: Aufwärmen (15 Min)", readable |-> TRUE,
   listable |-> TRUE, xrefs |-> <<"png">>]

BadPage ==
  [text |-> "", readable |-> FALSE, listable |-> TRUE, xrefs |-> <<>>]

\* A file fitz.open rejects, a document whose second page cannot be read,
\* and a document that extracts.
FileContents ==
  {[openable |-> FALSE, pages |-> <<>>],
   [openable |-> TRUE,  pages |-> <<GoodPage, BadPage>>],
   [openable |-> TRUE,  pages |-> <<GoodPage>>]}

Disks ==
  UNION {[names -> FileContents] :
           names \in {n \in SUBSET FileNames : Cardinality(n) <= MaxFiles}}

LibraryIds == {7, 184, 200}

OldSession(id) == [source_file |-> "library", id |-> id, drills |-> <<>>]

\* The libraries of up to MaxLib sessions with pairwise distinct ids, in any
\* order.
RECURSIVE LibrariesOf(_)
LibrariesOf(n) ==
  IF n = 0 THEN {<<>>}
  ELSE LET shorter == LibrariesOf(n - 1) IN
       shorter \cup {Append(l, OldSession(id)) :
                       l \in shorter, id \in LibraryIds}

Libraries ==
  {l \in LibrariesOf(MaxLib) : \A i, j \in 1..Len(l) : i # j => l[i].id # l[j].id}

OutputPaths == {"", "out.json"}

(***************************************************************************)
(* update_library, one step for each file of pdf_dir.                      *)
(***************************************************************************)
InitUpdate ==
  /\ pc = "load"
  /\ title = ""
  /\ phase = ""
  /\ session_id = 0
  /\ extract_images \in BOOLEAN
  /\ doc = <<>>
  /\ drills = NoDrills
  /\ all_images = <<>>
  /\ disk \in Disks
  /\ library_json \in Libraries
  /\ output_path \in OutputPaths
  /\ output_json = <<>>
  /\ writes = 0
  /\ library = <<>>
  /\ existing_ids = {}
  /\ pdf_files = <<>>
  /\ file_pos = 0
  /\ new_sessions = <<>>
  /\ extractor = 0
  /\ open_docs = {}
  /\ log = <<>>
  /\ NoTools

pdf_file == pdf_files[file_pos]

InLoop == pc = "loop" /\ file_pos <= Len(pdf_files)

\* Lines 391-404: load the library, collect its ids, list the PDF files.
LoadLibrary ==
  /\ pc = "load"
  /\ library' = library_json
  /\ existing_ids' = SessionIdsOf(library_json)
  /\ pdf_files' = SortedFiles(DOMAIN disk)
  /\ file_pos' = 1
  /\ new_sessions' = <<>>
  /\ pc' = "loop"
  /\ UNCHANGED <<tool_vars, classify_vars, segmenter_vars, disk, library_json, output_path,
                 output_json, writes, extractor, open_docs, log>>

\* Lines 408-410: a name without digits is passed over.
SkipNoDigits ==
  /\ InLoop
  /\ ~HasDigits(pdf_file)
  /\ file_pos' = file_pos + 1
  /\ UNCHANGED <<pc, tool_vars, classify_vars, segmenter_vars, disk, library_json, output_path,
                 output_json, writes, library, existing_ids, pdf_files,
                 new_sessions, extractor, open_docs, log>>

\* A test that finds no id in the library.
AlreadyInLibraryNever(sid) == FALSE

\* session_id in existing_ids
AlreadyInLibrary(sid) == sid \in existing_ids

\* Lines 415-417: a file whose id is in existing_ids is skipped.
SkipExisting ==
  /\ InLoop
  /\ HasDigits(pdf_file)
  /\ AlreadyInLibrary(FileId(pdf_file))
  /\ log' = Append(log, [kind |-> "skipping", file |-> pdf_file])
  /\ file_pos' = file_pos + 1
  /\ UNCHANGED <<pc, tool_vars, classify_vars, segmenter_vars, disk, library_json, output_path,
                 output_json, writes, library, existing_ids, pdf_files,
                 new_sessions, extractor, open_docs>>

\* An except clause that gives up the batch.
HandleExceptionAbort(printed) ==
  /\ log' = Append(printed, [kind |-> "error", file |-> pdf_file])
  /\ file_pos' = file_pos
  /\ pc' = "aborted"

\* Lines 431-432: the except clause; the loop goes on with the next file.
HandleException(printed) ==
  /\ log' = Append(printed, [kind |-> "error", file |-> pdf_file])
  /\ file_pos' = file_pos + 1
  /\ pc' = "loop"

ToProcess == InLoop /\ HasDigits(pdf_file) /\ ~AlreadyInLibrary(FileId(pdf_file))

\* Lines 419-422, 18-35: the constructor opens the document.
OpenDocument ==
  /\ ToProcess
  /\ disk[pdf_file].openable
  /\ log' = Append(log, [kind |-> "processing", file |-> pdf_file])
  /\ doc' = disk[pdf_file].pages
  /\ session_id' = FileId(pdf_file)
  /\ open_docs' = open_docs \cup {file_pos}
  /\ pc' = "opened"
  /\ UNCHANGED <<tool_vars, classify_vars, extract_images, drills, all_images, disk,
                 library_json, output_path, output_json, writes, library,
                 existing_ids, pdf_files, file_pos, new_sessions, extractor>>

\* Lines 419-422, 431-432: fitz.open raises in the constructor.
OpenRaises ==
  /\ ToProcess
  /\ ~disk[pdf_file].openable
  /\ HandleException(Append(log, [kind |-> "processing", file |-> pdf_file]))
  /\ UNCHANGED <<tool_vars, classify_vars, segmenter_vars, disk, library_json, output_path,
                 output_json, writes, library, existing_ids, pdf_files,
                 new_sessions, extractor, open_docs>>

\* The variable extractor is bound to the document just opened.  The object
\* it held before is garbage now; if its handle was left open, its finalizer
\* has closed it (released) or has not run yet.
Rebind(released, closed) ==
  /\ extractor' = file_pos
  /\ open_docs' = (open_docs \ closed) \ (IF released THEN {extractor} ELSE {})

\* Lines 422-430: extract the session, append it, close the document.
ExtractAndClose ==
  /\ pc = "opened"
  /\ Readable(doc)
  /\ \E released \in BOOLEAN : Rebind(released, {file_pos})
  /\ new_sessions' = Append(new_sessions,
                            ExtractSession(pdf_file, session_id, doc, extract_images))
  /\ drills' = new_sessions'[Len(new_sessions')].drills
  /\ all_images' = IF extract_images THEN ExtractImagesFrom(session_id, doc, 1) ELSE <<>>
  /\ log' = Append(log, [kind |-> "extracted", file |-> pdf_file])
  /\ file_pos' = file_pos + 1
  /\ pc' = "loop"
  /\ UNCHANGED <<tool_vars, classify_vars, session_id, extract_images, doc, disk, library_json,
                 output_path, output_json, writes, library, existing_ids, pdf_files>>

\* Lines 422-423, 431-432: extract_session raises; close() is not reached.
ExtractRaises ==
  /\ pc = "opened"
  /\ ~Readable(doc)
  /\ \E released \in BOOLEAN : Rebind(released, {})
  /\ HandleException(log)
  /\ UNCHANGED <<tool_vars, classify_vars, segmenter_vars, disk, library_json, output_path,
                 output_json, writes, library, existing_ids, pdf_files, new_sessions>>

\* Lines 435-443: extend, sort, write the library.
SaveLibrary ==
  /\ pc = "loop"
  /\ file_pos > Len(pdf_files)
  /\ library' = SortById(library \o new_sessions)
  /\ IF output_path = ""
       THEN library_json' = library' /\ UNCHANGED output_json
       ELSE output_json' = library' /\ UNCHANGED library_json
  /\ writes' = writes + 1
  /\ pc' = "done"
  /\ UNCHANGED <<tool_vars, classify_vars, segmenter_vars, disk, output_path, existing_ids,
                 pdf_files, file_pos, new_sessions, extractor, open_docs, log>>

NextUpdate ==
  \/ LoadLibrary
  \/ SkipNoDigits
  \/ SkipExisting
  \/ OpenDocument
  \/ OpenRaises
  \/ ExtractAndClose
  \/ ExtractRaises
  \/ SaveLibrary

Spec == InitUpdate /\ [][NextUpdate]_vars

\* The library update_library saved.
Saved == IF output_path = "" THEN library_json ELSE output_json

(***************************************************************************)
(* create_hblib and create_hblib_optimized: the archive made from a        *)
(* library and the image files on disk.                                    *)
(***************************************************************************)
\* str.replace(old, new): every occurrence, from left to right
RECURSIVE Replace(_, _, _)
Replace(s, old, new) ==
  IF Len(s) < Len(old) THEN s
  ELSE IF SubSeq(s, 1, Len(old)) = old
    THEN new \o Replace(SubSeq(s, Len(old) + 1, Len(s)), old, new)
    ELSE CharAt(s, 1) \o Replace(SubSeq(s, 2, Len(s)), old, new)

\* new_path: the path of an image inside the archive's images/ folder
NewPath(original_path) == Replace(original_path, "drill_images/", "drill_images_v2/")

\* manifest['drills'][drill_id]['images']: one new_path per image of the
\* drill, appended before os.path.exists is asked
ManifestImages(images) == [k \in 1..Len(images) |-> NewPath(images[k].path)]

\* manifest['drills'][drill_id] = {...}: the entry of a drill_id is made
\* anew for every drill that has images
SetEntry(m, drill_id, entry) ==
  [x \in DOMAIN m \cup {drill_id} |-> IF x = drill_id THEN entry ELSE m[x]]

\* The manifest after the drills of a session from position i on.
RECURSIVE ManifestOfDrills(_, _, _, _)
ManifestOfDrills(m, sid, ds, i) ==
  IF i > Len(ds) THEN m
  ELSE IF ds[i].images = <<>> THEN ManifestOfDrills(m, sid, ds, i + 1)
  ELSE ManifestOfDrills(
         SetEntry(m, ds[i].drill_id,
                  [session_id |-> sid, images |-> ManifestImages(ds[i].images)]),
         sid, ds, i + 1)

RECURSIVE ManifestOf(_, _, _)
ManifestOf(m, sessions, i) ==
  IF i > Len(sessions) THEN m
  ELSE ManifestOf(ManifestOfDrills(m, sessions[i].id, sessions[i].drills, 1),
                  sessions, i + 1)

ImagePathsOf(drill) == {drill.images[k].path : k \in 1..Len(drill.images)}

DrillPaths(ds) == UNION {ImagePathsOf(ds[j]) : j \in 1..Len(ds)}

\* The image paths the drills of a library refer to.
ReferencedPaths(sessions) ==
  UNION {DrillPaths(sessions[i].drills) : i \in 1..Len(sessions)}

\* image_files_set: the (original_path, new_path) pairs of the referenced
\* images that exist on disk
ImageFilesSet(sessions, on_disk) ==
  {<<p, NewPath(p)>> : p \in ReferencedPaths(sessions) \cap on_disk}

\* a < b for tuples of two strings
PairLess(a, b) ==
  IF a[1] # b[1] THEN StrLess(a[1], b[1]) ELSE StrLess(a[2], b[2])

\* sorted(list(image_files_set))
RECURSIVE SortedPairs(_)
SortedPairs(pairs) ==
  IF pairs = {} THEN <<>>
  ELSE LET first == CHOOSE p \in pairs : \A q \in pairs \ {p} : PairLess(p, q) IN
       <<first>> \o SortedPairs(pairs \ {first})

\* zf.write(original_path, f'images/{zip_path}') for each pair
ImageEntries(image_files) ==
  [k \in 1..Len(image_files) |-> "images/" \o image_files[k][2]]

ManifestName == "images/drill_images_manifest_v2.json"

\* The entries of the archive in the order they are written.
ArchiveOf(sessions, on_disk) ==
  <<"library.json", ManifestName>>
  \o ImageEntries(SortedPairs(ImageFilesSet(sessions, on_disk)))

\* dict.get(key, default)
Get(d, key, default) == IF key \in DOMAIN d THEN d[key] ELSE default

\* The empty dict, and the empty list.
EmptyDict == <<>>

\* optimize_library_json: the text fields that are kept
OptimizeText(drill_text) ==
  [setup           |-> Get(drill_text, "setup", ""),
   execution       |-> Get(drill_text, "execution", ""),
   coaching_points |-> Get(drill_text, "coaching_points", ""),
   variations      |-> Get(drill_text, "variations", "")]

\* An optimized drill that leaves the images out.
OptimizeDrillWithoutImages(drill) ==
  [drill_id     |-> drill["drill_id"],
   title        |-> drill["title"],
   duration_min |-> drill["duration_min"],
   phase        |-> drill["phase"],
   text         |-> OptimizeText(Get(drill, "text", EmptyDict)),
   tags         |-> Get(drill, "tags", EmptyDict),
   images       |-> <<>>]

\* optimize_library_json, for one drill
OptimizeDrill(drill) ==
  [drill_id     |-> drill["drill_id"],
   title        |-> drill["title"],
   duration_min |-> drill["duration_min"],
   phase        |-> drill["phase"],
   text         |-> OptimizeText(Get(drill, "text", EmptyDict)),
   tags         |-> Get(drill, "tags", EmptyDict),
   images       |-> Get(drill, "images", <<>>)]

OptimizeDrills(session_drills) ==
  [j \in 1..Len(session_drills) |-> OptimizeDrill(session_drills[j])]

OptimizeSession(session) ==
  [id                 |-> session["id"],
   title              |-> session["title"],
   duration_total_min |-> session["duration_total_min"],
   tags               |-> Get(session, "tags", EmptyDict),
   drills             |-> OptimizeDrills(Get(session, "drills", <<>>))]

OptimizeSessions(sessions) ==
  [i \in 1..Len(sessions) |-> OptimizeSession(sessions[i])]

\* optimize_library_json
OptimizeLibraryJson(data) ==
  [library_version |-> Get(data, "library_version", "v4_optimized"),
   source          |-> "optimized_for_mobile",
   sessions        |-> OptimizeSessions(Get(data, "sessions", <<>>))]

\* session['tags'] as extract_session sets it for a document without
\* equipment tags
SessionTags ==
  [formation |-> "unbekannt", focus_area |-> "unbekannt",
   concept_tags |-> <<>>, equipment_tags |-> <<>>]

\* A session of library_with_full_pages.json: the drills extract_drills
\* found in the page texts, each with the page images of its page.
PackageSession(sid, texts) ==
  [id                 |-> sid,
   title              |-> "Trainingseinheit " \o IntToStr(sid),
   duration_total_min |-> 90,
   tags               |-> SessionTags,
   drills             |-> AssignImages(DrillsOrDefault(sid, texts),
                                       ExtractAllPagesFromPdf(sid, texts))]

\* The libraries create_hblib is given: none or one session.
PackageLibraries ==
  {<<>>} \cup {<<PackageSession(sid, PageTextsOf(d))>> : sid \in SessionIds, d \in Docs}

InitPackage ==
  /\ pc = "package"
  /\ title = ""
  /\ phase = ""
  /\ session_id = 0
  /\ extract_images = FALSE
  /\ doc = <<>>
  /\ drills = NoDrills
  /\ all_images = <<>>
  /\ NoUpdate
  /\ library_data \in PackageLibraries
  /\ files_on_disk \in SUBSET ReferencedPaths(library_data)
  /\ archive_json = <<>>
  /\ manifest = <<>>
  /\ archive = <<>>
  /\ NoManifest
  /\ NoEquipment
  /\ NoCli
  /\ NoOptimize

\* create_hblib
CreateHblib ==
  /\ pc = "package"
  /\ archive_json' = library_data
  /\ manifest' = ManifestOf(<<>>, library_data, 1)
  /\ archive' = ArchiveOf(library_data, files_on_disk)
  /\ pc' = "packaged"
  /\ UNCHANGED <<library_data, files_on_disk, classify_vars, segmenter_vars, update_vars, optimize_vars, cli_vars, equipment_vars, manifest_vars>>

\* create_hblib_optimized: the same on the optimized library
CreateHblibOptimized ==
  /\ pc = "package"
  /\ archive_json' = OptimizeLibraryJson([sessions |-> library_data]).sessions
  /\ manifest' = ManifestOf(<<>>, OptimizeLibraryJson([sessions |-> library_data]).sessions, 1)
  /\ archive' = ArchiveOf(OptimizeLibraryJson([sessions |-> library_data]).sessions, files_on_disk)
  /\ pc' = "packaged"
  /\ UNCHANGED <<library_data, files_on_disk, classify_vars, segmenter_vars, update_vars, optimize_vars, cli_vars, equipment_vars, manifest_vars>>

NextPackage == CreateHblib \/ CreateHblibOptimized

SpecPackage == InitPackage /\ [][NextPackage]_vars

(***************************************************************************)
(* update_manifest, called again and again on the same manifest file.      *)
(***************************************************************************)
MaxCalls == 3

Versions == {"v14", "v15", "v16"}

\* f"{library_version}: Optimiert für mobile Geräte mit Remote Images"
ChangelogEntry(library_version) ==
  library_version \o ": Optimiert für mobile Geräte mit Remote Images"

\* Python's `x in list`
InList(x, list) == \E k \in 1..Len(list) : list[k] = x

\* An update that puts the new entry at the end of the changelog.
AddChangelogEntryAtEnd(changelog, changelog_entry) ==
  IF InList(changelog_entry, changelog) THEN changelog
  ELSE Append(changelog, changelog_entry)

\* if changelog_entry not in manifest["changelog"]:
\*     manifest["changelog"].insert(0, changelog_entry)
AddChangelogEntry(changelog, changelog_entry) ==
  IF InList(changelog_entry, changelog) THEN changelog
  ELSE <<changelog_entry>> \o changelog

\* manifest["changelog"] after lines 41-42
LoadedChangelog(file) ==
  IF file.exists /\ file.has_changelog THEN file.changelog ELSE <<>>

\* The changelog entries a manifest file may hold before the first call.
OldEntries == {ChangelogEntry(v) : v \in {"v14", "v15"}} \cup {"v13: Erste Version"}

NoDuplicates(list) == \A a, b \in 1..Len(list) : a # b => list[a] # list[b]

\* The changelogs without duplicates of up to two old entries.
OldChangelogs ==
  {<<>>} \cup {<<e>> : e \in OldEntries}
  \cup {c \in OldEntries \X OldEntries : c[1] # c[2]}

\* No file, a file without the changelog key, or a file with a changelog
\* that has no duplicates.
ManifestFiles ==
  {AbsentManifest}
  \cup {[exists |-> TRUE, version |-> v, has_changelog |-> FALSE, changelog |-> <<>>] :
          v \in Versions}
  \cup {[exists |-> TRUE, version |-> v, has_changelog |-> TRUE, changelog |-> c] :
          v \in Versions, c \in OldChangelogs}

InitManifest ==
  /\ pc = "manifest"
  /\ title = ""
  /\ phase = ""
  /\ session_id = 0
  /\ extract_images = FALSE
  /\ doc = <<>>
  /\ drills = NoDrills
  /\ all_images = <<>>
  /\ NoUpdate
  /\ NoPackage
  /\ manifest_json \in ManifestFiles
  /\ calls = 0
  /\ NoEquipment
  /\ NoCli
  /\ NoOptimize

\* update_manifest(manifest_path, library_version, library_url, stats)
UpdateManifest(library_version) ==
  /\ pc = "manifest"
  /\ calls < MaxCalls
  /\ manifest_json' =
       [exists        |-> TRUE,
        version       |-> library_version,
        has_changelog |-> TRUE,
        changelog     |-> AddChangelogEntry(LoadedChangelog(manifest_json),
                                            ChangelogEntry(library_version))]
  /\ calls' = calls + 1
  /\ UNCHANGED <<pc, classify_vars, segmenter_vars, update_vars, optimize_vars, cli_vars, equipment_vars, package_vars>>

NextManifest == \E library_version \in Versions : UpdateManifest(library_version)

SpecManifest == InitManifest /\ [][NextManifest]_vars

(***************************************************************************)
(* extract_equipment and _extract_equipment_tags.  The two patterns are    *)
(* searched with re.DOTALL | re.IGNORECASE:                                *)
(*   (?:Material|Benötigtes Material|Equipment):\s*\n(.*?)                 *)
(*       (?:\n\n|\nAblauf|\nGrundaufbau)                                   *)
(*   (?:Material|Benötigtes Material):\s*([^\n]+(?:\n[^\n]+)*?)            *)
(*       (?:\n\n|\nAblauf)                                                 *)
(* What follows the colon does not depend on which marker stands before    *)
(* it, so that the leftmost match is the one at the leftmost colon after   *)
(* which the rest of the pattern matches.                                  *)
(***************************************************************************)
StartsWith(s, prefix) == Len(s) >= Len(prefix) /\ SubSeq(s, 1, Len(prefix)) = prefix

EndsWith(s, suffix) ==
  Len(s) >= Len(suffix) /\ SubSeq(s, Len(s) - Len(suffix) + 1, Len(s)) = suffix

SectionMarkers == {"material", "benötigtes material", "equipment"}

LineMarkers == {"material", "benötigtes material"}

SectionEnds == {"\n\n", "\nablauf", "\ngrundaufbau"}

LineEnds == {"\n\n", "\nablauf"}

\* One of the markers, in any case, and a colon end right before position c.
AfterMarkerColon(s, c, markers) ==
  /\ c > 1
  /\ CharAt(s, c - 1) = ":"
  /\ \E mk \in markers : EndsWith(Lower(SubSeq(s, 1, c - 2)), mk)

\* One of the closing alternatives, which all begin with \n, at position e.
EndAt(s, e, ends) ==
  /\ CharAt(s, e) = "\n"
  /\ \E t \in ends : Lower(Slice(s, e, e + Len(t) - 1)) = t

EndsFrom(s, g, ends) == {e \in g..Len(s) : EndAt(s, e, ends)}

MinOr0(positions) ==
  IF positions = {} THEN 0 ELSE CHOOSE k \in positions : \A l \in positions : k <= l

\* (.*?) from position g on: the first position with a closing alternative,
\* or 0.
FirstEndFrom(s, g, ends) == MinOr0(EndsFrom(s, g, ends))

\* \s*\n from position c on: the positions the \n can take, which greedy
\* \s* tries from the last to the first.
NewlineAfter(s, c) ==
  {k \in c..(RunEnd(s, c, Space) - 1) :
     CharAt(s, k) = "\n" /\ FirstEndFrom(s, k + 1, SectionEnds) > 0}

LastOf(positions) == CHOOSE k \in positions : \A l \in positions : l <= k

FirstOf(positions) == CHOOSE k \in positions : \A l \in positions : k <= l

GroupFrom(s, g, e) == [ok |-> TRUE, group |-> SubSeq(s, g, e - 1)]

\* The first pattern from the colon before c on.
SectionAt(s, c) ==
  IF AfterMarkerColon(s, c, SectionMarkers) /\ NewlineAfter(s, c) # {}
    THEN GroupFrom(s, LastOf(NewlineAfter(s, c)) + 1,
                   FirstEndFrom(s, LastOf(NewlineAfter(s, c)) + 1, SectionEnds))
    ELSE NoMatch

\* The position of the first \n from pos on, or 0.
LineEnd(s, pos) == MinOr0({e \in pos..Len(s) : CharAt(s, e) = "\n"})

\* [^\n]+(?:\n[^\n]+)*? followed by a closing alternative: the lines from
\* pos on are taken one by one until one ends with a closing alternative;
\* the position of that end, or 0.
RECURSIVE LinesEnd(_, _)
LinesEndAt(s, e) ==
  IF e = 0 THEN 0
  ELSE IF EndAt(s, e, LineEnds) THEN e
  ELSE LinesEnd(s, e + 1)

LinesEnd(s, pos) ==
  IF pos > Len(s) \/ CharAt(s, pos) = "\n" THEN 0
  ELSE LinesEndAt(s, LineEnd(s, pos))

\* \s* followed by the group: the positions the group can start at, which
\* greedy \s* tries from the last to the first.
LinesStart(s, c) == {g \in c..RunEnd(s, c, Space) : LinesEnd(s, g) > 0}

\* The second pattern from the colon before c on.
LinesAt(s, c) ==
  IF AfterMarkerColon(s, c, LineMarkers) /\ LinesStart(s, c) # {}
    THEN GroupFrom(s, LastOf(LinesStart(s, c)), LinesEnd(s, LastOf(LinesStart(s, c))))
    ELSE NoMatch

\* re.search: the match at the leftmost position that has one
SearchSection(s) ==
  IF \E c \in 1..(Len(s) + 1) : SectionAt(s, c).ok
    THEN SectionAt(s, FirstOf({c \in 1..(Len(s) + 1) : SectionAt(s, c).ok}))
    ELSE NoMatch

SearchLines(s) ==
  IF \E c \in 1..(Len(s) + 1) : LinesAt(s, c).ok
    THEN LinesAt(s, FirstOf({c \in 1..(Len(s) + 1) : LinesAt(s, c).ok}))
    ELSE NoMatch

\* for pattern in patterns: the first pattern that matches is the one used
MaterialMatch(s) == IF SearchSection(s).ok THEN SearchSection(s) ELSE SearchLines(s)

\* The characters re.split splits at: newline, bullet, hyphen and the control
\* character 1.  (The bullet and the control character cannot be written
\* here; no text of the model holds them.)
ItemSeparators == {"\n", "-"}

\* re.split on one character of seps: the pieces between them
RECURSIVE SplitAt(_, _)
SplitAt(s, seps) ==
  IF \E d \in 1..Len(s) : CharAt(s, d) \in seps
    THEN <<SubSeq(s, 1, FirstOf({d \in 1..Len(s) : CharAt(s, d) \in seps}) - 1)>>
         \o SplitAt(SubSeq(s, FirstOf({d \in 1..Len(s) : CharAt(s, d) \in seps}) + 1, Len(s)),
                    seps)
    ELSE <<s>>

\* Where ^\d+[\.\)]\s* ends in s, plus one.
NumberingEnd(s, e) ==
  IF e > 1 /\ e <= Len(s) /\ CharAt(s, e) \in {".", ")"}
    THEN RunEnd(s, e + 1, Space)
    ELSE 1

\* re.sub(r'^\d+[\.\)]\s*', '', item)
WithoutNumbering(s) == SubSeq(s, NumberingEnd(s, RunEnd(s, 1, Digits)), Len(s))

\* item.strip(), then the numbering removed
CleanItem(item) == WithoutNumbering(Strip(item))

\* item and len(item) > 2 and not item.startswith('http')
KeepItem(item) == Len(item) > 2 /\ ~StartsWith(item, "http")

ItemsOf(material_text) ==
  SelectSeq([k \in 1..Len(SplitAt(material_text, ItemSeparators)) |->
               CleanItem(SplitAt(material_text, ItemSeparators)[k])],
            KeepItem)

DefaultEquipment == <<"Bälle", "Hütchen">>

EquipmentOr(items) == IF items = <<>> THEN DefaultEquipment ELSE items

EquipmentOfMatch(mt) == IF mt.ok THEN EquipmentOr(ItemsOf(mt.group)) ELSE DefaultEquipment

\* extract_equipment
ExtractEquipment(s) == EquipmentOfMatch(MaterialMatch(s))

\* " ".join(equipment)
RECURSIVE JoinWithBlank(_)
JoinWithBlank(items) ==
  IF items = <<>> THEN ""
  ELSE IF Len(items) = 1 THEN items[1]
  ELSE items[1] \o " " \o JoinWithBlank(Tail(items))

\* tag_mapping, in the order of the dictionary
TagMapping ==
  << [tag |-> "Hütchen",             keywords |-> {"hütchen", "kegel"}],
     [tag |-> "Ballkiste",           keywords |-> {"ballkiste", "bälle"}],
     [tag |-> "Reifen",              keywords |-> {"reifen", "ring"}],
     [tag |-> "Koordinationsleiter", keywords |-> {"koordinationsleiter", "leiter"}],
     [tag |-> "Turnkisten",          keywords |-> {"turnkiste", "kasten"}],
     [tag |-> "Turnmatte",           keywords |-> {"matte", "turnmatte"}] >>

TagsIn(equipment_text) ==
  SelectSeq(TagMapping, LAMBDA t : AnyWordIn(t.keywords, equipment_text))

TagNames(entries) == [k \in 1..Len(entries) |-> entries[k].tag]

\* _extract_equipment_tags
ExtractEquipmentTags(items) == TagNames(TagsIn(Lower(JoinWithBlank(items))))

\* The texts extract_equipment is given: a headline, the marker of the
\* equipment section or another word, what follows the colon, the list,
\* and what follows the list.
TextHeads == {"", "TE 7\n"}

TextMarkers == {"Material:", "Benötigtes Material:", "EQUIPMENT:", "Geräte:"}

TextGaps == {"\n", " ", " \n\n"}

TextLists ==
  {"Hütchen, Bälle, Reifen",
   "- Hütchen\n- Bälle",
   "1. Kegel\n2) Koordinations-Leiter",
   "http://x.de\nTor",
   ""}

TextTails == {"\n\n", "\nAblauf", "\nGrundaufbau:", ""}

EquipmentTexts ==
  {h \o mk \o g \o l \o t :
     h \in TextHeads, mk \in TextMarkers, g \in TextGaps, l \in TextLists, t \in TextTails}

InitEquipment ==
  /\ pc = "equipment"
  /\ title = ""
  /\ phase = ""
  /\ session_id = 0
  /\ extract_images = FALSE
  /\ doc = <<>>
  /\ drills = NoDrills
  /\ all_images = <<>>
  /\ NoUpdate
  /\ NoPackage
  /\ NoManifest
  /\ text \in EquipmentTexts
  /\ equipment = <<>>
  /\ equipment_tags = <<>>
  /\ NoCli
  /\ NoOptimize

\* equipment = self.extract_equipment(all_text), and the tags made from it
RunExtractEquipment ==
  /\ pc = "equipment"
  /\ equipment' = ExtractEquipment(text)
  /\ equipment_tags' = ExtractEquipmentTags(equipment')
  /\ pc' = "equipped"
  /\ UNCHANGED <<text, classify_vars, segmenter_vars, update_vars, optimize_vars, cli_vars, package_vars, manifest_vars>>

NextEquipment == RunExtractEquipment

SpecEquipment == InitEquipment /\ [][NextEquipment]_vars

(***************************************************************************)
(* The main blocks of pdf_extractor.py and pdf_to_images.py.  An exception *)
(* nothing catches ends the process with a traceback and status 1.         *)
(***************************************************************************)
MaxArgs == 4

Scripts == {"pdf_extractor.py", "pdf_to_images.py"}

ArgWords == {"single", "update", "check", "lib.json", "pdfs", "--no-images", "150"}

RECURSIVE ArgLists(_)
ArgLists(n) ==
  IF n = 0 THEN {<<>>}
  ELSE ArgLists(n - 1)
       \cup {Append(a, w) : a \in {b \in ArgLists(n - 1) : Len(b) = n - 1}, w \in ArgWords}

\* int(s) raises ValueError unless s is a number
IsInt(s) == s # "" /\ \A i \in 1..Len(s) : CharAt(s, i) \in Digits

InitCli ==
  /\ pc = "main"
  /\ title = ""
  /\ phase = ""
  /\ session_id = 0
  /\ extract_images = FALSE
  /\ doc = <<>>
  /\ drills = NoDrills
  /\ all_images = <<>>
  /\ NoUpdate
  /\ NoPackage
  /\ NoManifest
  /\ NoEquipment
  /\ script \in Scripts
  /\ argv \in {<<s>> \o a : s \in {script}, a \in ArgLists(MaxArgs)}
  /\ stdout = <<>>
  /\ exit_status = -1
  /\ called = NoCall
  /\ NoOptimize

Exit(what, status) ==
  /\ stdout' = Append(stdout, what)
  /\ exit_status' = status
  /\ called' = NoCall
  /\ pc' = "exited"

Call(function, args) ==
  /\ stdout' = stdout
  /\ exit_status' = exit_status
  /\ called' = [function |-> function, args |-> args]
  /\ pc' = "called"

\* sys.argv[i] of Python is argv[i + 1] here; reading an index that is not
\* there raises IndexError.
Has(i) == Len(argv) > i

Arg(i) == argv[i + 1]

\* '--no-images' not in sys.argv
ExtractImagesFlag == \A i \in 1..Len(argv) : argv[i] # "--no-images"

\* The optional output argument of pdf_extractor.py at index i ("" for None).
OutputArg(i) == IF Has(i) /\ Arg(i) # "--no-images" THEN Arg(i) ELSE ""

\* pdf_extractor.py, lines 485-489 and 507-509
ExtractorUsage ==
  /\ pc = "main" /\ script = "pdf_extractor.py"
  /\ IF ~Has(1) THEN Exit("usage", 1)
     ELSE Arg(1) \notin {"single", "update"} /\ Exit("unknown", 1)
  /\ UNCHANGED <<script, argv, classify_vars, segmenter_vars, update_vars, optimize_vars,
                 package_vars, manifest_vars, equipment_vars>>

\* pdf_extractor.py single, lines 494-497
ExtractorSingle ==
  /\ pc = "main" /\ script = "pdf_extractor.py"
  /\ Has(1) /\ Arg(1) = "single"
  /\ IF ~Has(2) THEN Exit("traceback", 1)
     ELSE Call("extract_single_pdf", <<Arg(2), OutputArg(3), ExtractImagesFlag>>)
  /\ UNCHANGED <<script, argv, classify_vars, segmenter_vars, update_vars, optimize_vars,
                 package_vars, manifest_vars, equipment_vars>>

\* pdf_extractor.py update, lines 499-505
ExtractorUpdate ==
  /\ pc = "main" /\ script = "pdf_extractor.py"
  /\ Has(1) /\ Arg(1) = "update"
  /\ IF ~Has(3) THEN Exit("traceback", 1)
     ELSE Call("update_library", <<Arg(2), Arg(3), OutputArg(4), ExtractImagesFlag>>)
  /\ UNCHANGED <<script, argv, classify_vars, segmenter_vars, update_vars, optimize_vars,
                 package_vars, manifest_vars, equipment_vars>>

\* pdf_to_images.py, lines 134-139 and 155-157
ImagesUsage ==
  /\ pc = "main" /\ script = "pdf_to_images.py"
  /\ IF ~Has(1) THEN Exit("usage", 1)
     ELSE Arg(1) \notin {"single", "update"} /\ Exit("unknown", 1)
  /\ UNCHANGED <<script, argv, classify_vars, segmenter_vars, update_vars, optimize_vars,
                 package_vars, manifest_vars, equipment_vars>>

\* pdf_to_images.py single, lines 143-146
ImagesSingle ==
  /\ pc = "main" /\ script = "pdf_to_images.py"
  /\ Has(1) /\ Arg(1) = "single"
  /\ IF ~Has(2) THEN Exit("traceback", 1)
     ELSE IF Has(3) /\ ~IsInt(Arg(3)) THEN Exit("traceback", 1)
     ELSE Call("extract_single_session",
               <<Arg(2), IF Has(3) THEN ParseInt(Arg(3)) ELSE 150>>)
  /\ UNCHANGED <<script, argv, classify_vars, segmenter_vars, update_vars, optimize_vars,
                 package_vars, manifest_vars, equipment_vars>>

\* pdf_to_images.py update, lines 148-153
ImagesUpdate ==
  /\ pc = "main" /\ script = "pdf_to_images.py"
  /\ Has(1) /\ Arg(1) = "update"
  /\ IF ~Has(4) THEN Exit("traceback", 1)
     ELSE IF Has(5) /\ ~IsInt(Arg(5)) THEN Exit("traceback", 1)
     ELSE Call("update_library_with_page_images",
               <<Arg(2), Arg(3), Arg(4), IF Has(5) THEN ParseInt(Arg(5)) ELSE 150>>)
  /\ UNCHANGED <<script, argv, classify_vars, segmenter_vars, update_vars, optimize_vars,
                 package_vars, manifest_vars, equipment_vars>>

NextCli ==
  \/ ExtractorUsage
  \/ ExtractorSingle
  \/ ExtractorUpdate
  \/ ImagesUsage
  \/ ImagesSingle
  \/ ImagesUpdate

SpecCli == InitCli /\ [][NextCli]_vars

(***************************************************************************)
(* update_library_with_page_images, one step for each file of pdf_dir.     *)
(* It works on the state of a library update: the library file, pdf_dir,   *)
(* the sorted file list, the library in memory and the output file.        *)
(***************************************************************************)
RenderedPage == [renderable |-> TRUE]

BrokenPage == [renderable |-> FALSE]

\* A file fitz.open rejects, a document of two pages, and a document whose
\* second page get_pixmap cannot render.
RenderContents ==
  {[openable |-> FALSE, pages |-> <<>>],
   [openable |-> TRUE,  pages |-> <<RenderedPage, RenderedPage>>],
   [openable |-> TRUE,  pages |-> <<RenderedPage, BrokenPage>>]}

RenderNames == {"TE_184.pdf", "TE_7.pdf", "notes.pdf"}

RenderDisks ==
  UNION {[names -> RenderContents] :
           names \in {n \in SUBSET RenderNames : Cardinality(n) <= MaxFiles}}

\* The page texts of the documents the sessions of the library came from.
LibraryTexts ==
  {<<"Übung 1: Aufwärmen (15 Min)">>,
   <<"Drill 2 Passen (10 min)\nTEIL 3: Angriff warm (0 Min)",
     "Übung 1: Aufwärmen (15 Min)">>}

\* A session as update_library saved it.
SavedSession(id, texts) ==
  [source_file |-> "TE_" \o IntToStr(id) \o ".pdf",
   id          |-> id,
   drills      |-> DrillsOrDefault(id, texts)]

RECURSIVE DrillLibrariesOf(_)
DrillLibrariesOf(n) ==
  IF n = 0 THEN {<<>>}
  ELSE DrillLibrariesOf(n - 1)
       \cup {Append(l, SavedSession(id, texts)) :
               l \in {k \in DrillLibrariesOf(n - 1) : Len(k) = n - 1},
               id \in LibraryIds, texts \in LibraryTexts}

\* The libraries of up to MaxLib sessions, in any order.
DrillLibraries == DrillLibrariesOf(MaxLib)

InitImages ==
  /\ pc = "images_load"
  /\ title = ""
  /\ phase = ""
  /\ session_id = 0
  /\ extract_images = FALSE
  /\ doc = <<>>
  /\ drills = NoDrills
  /\ all_images = <<>>
  /\ disk \in RenderDisks
  /\ library_json \in DrillLibraries
  /\ output_path = "out.json"
  /\ output_json = <<>>
  /\ writes = 0
  /\ library = <<>>
  /\ existing_ids = {}
  /\ pdf_files = <<>>
  /\ file_pos = 0
  /\ new_sessions = <<>>
  /\ extractor = 0
  /\ open_docs = {}
  /\ log = <<>>
  /\ NoTools

\* next((s for s in library['sessions'] if s['id'] == session_id), None)
FirstWithId(sessions, id) ==
  CHOOSE i \in 1..Len(sessions) :
    sessions[i].id = id /\ \A j \in 1..(i - 1) : sessions[j].id # id

\* An update that puts the session with its images at the end of the list.
WithSessionImagesAtEnd(sessions, i, images) ==
  SubSeq(sessions, 1, i - 1) \o SubSeq(sessions, i + 1, Len(sessions))
  \o <<[sessions[i] EXCEPT !.drills = AssignImages(@, images)]>>

\* for drill in session['drills']: drill['images'] = [...]
WithSessionImages(sessions, i, images) ==
  [sessions EXCEPT ![i].drills = AssignImages(@, images)]

ImagesInLoop == pc = "images_loop" /\ file_pos <= Len(pdf_files)

\* get_pixmap renders every page of the document.
Renderable(pages) == \A p \in 1..Len(pages) : pages[p].renderable

\* Lines 68-71: load the library and list the PDF files.
ImagesLoad ==
  /\ pc = "images_load"
  /\ library' = library_json
  /\ pdf_files' = SortedFiles(DOMAIN disk)
  /\ file_pos' = 1
  /\ pc' = "images_loop"
  /\ UNCHANGED <<tool_vars, classify_vars, segmenter_vars, disk, library_json,
                 output_path, output_json, writes, existing_ids, new_sessions,
                 extractor, open_docs, log>>

\* Lines 77-79: a file name without digits.
ImagesSkipNoDigits ==
  /\ ImagesInLoop
  /\ ~HasDigits(pdf_file)
  /\ file_pos' = file_pos + 1
  /\ UNCHANGED <<pc, tool_vars, classify_vars, segmenter_vars, disk, library_json,
                 output_path, output_json, writes, library, existing_ids, pdf_files,
                 new_sessions, extractor, open_docs, log>>

\* Lines 84-87: no session of the library has the id of the file.
ImagesSkipNotInLibrary ==
  /\ ImagesInLoop
  /\ HasDigits(pdf_file)
  /\ FileId(pdf_file) \notin SessionIdsOf(library)
  /\ log' = Append(log, [kind |-> "skipping", file |-> pdf_file])
  /\ file_pos' = file_pos + 1
  /\ UNCHANGED <<pc, tool_vars, classify_vars, segmenter_vars, disk, library_json,
                 output_path, output_json, writes, library, existing_ids, pdf_files,
                 new_sessions, extractor, open_docs>>

\* Lines 89-100: render the pages and give each drill of the session the
\* images of its page.
ImagesProcess ==
  /\ ImagesInLoop
  /\ HasDigits(pdf_file)
  /\ FileId(pdf_file) \in SessionIdsOf(library)
  /\ disk[pdf_file].openable /\ Renderable(disk[pdf_file].pages)
  /\ library' = WithSessionImages(
                  library, FirstWithId(library, FileId(pdf_file)),
                  ExtractAllPagesFromPdf(FileId(pdf_file), disk[pdf_file].pages))
  /\ log' = log \o <<[kind |-> "processing", file |-> pdf_file],
                     [kind |-> "extracted", file |-> pdf_file]>>
  /\ file_pos' = file_pos + 1
  /\ UNCHANGED <<pc, tool_vars, classify_vars, segmenter_vars, disk, library_json,
                 output_path, output_json, writes, existing_ids, pdf_files,
                 new_sessions, extractor, open_docs>>

\* fitz.open or get_pixmap raises, which nothing catches: the run ends
\* before the library is written.
ImagesRaises ==
  /\ ImagesInLoop
  /\ HasDigits(pdf_file)
  /\ FileId(pdf_file) \in SessionIdsOf(library)
  /\ ~(disk[pdf_file].openable /\ Renderable(disk[pdf_file].pages))
  /\ log' = Append(log, [kind |-> "processing", file |-> pdf_file])
  /\ pc' = "images_failed"
  /\ UNCHANGED <<tool_vars, classify_vars, segmenter_vars, disk, library_json,
                 output_path, output_json, writes, library, existing_ids, pdf_files,
                 file_pos, new_sessions, extractor, open_docs>>

\* Lines 102-104: write the library to output_path.
ImagesSave ==
  /\ pc = "images_loop"
  /\ file_pos > Len(pdf_files)
  /\ output_json' = library
  /\ writes' = writes + 1
  /\ pc' = "images_done"
  /\ UNCHANGED <<tool_vars, classify_vars, segmenter_vars, disk, library_json,
                 output_path, library, existing_ids, pdf_files, file_pos,
                 new_sessions, extractor, open_docs, log>>

NextImages ==
  \/ ImagesLoad
  \/ ImagesSkipNoDigits
  \/ ImagesSkipNotInLibrary
  \/ ImagesProcess
  \/ ImagesRaises
  \/ ImagesSave

SpecImages == InitImages /\ [][NextImages]_vars

(***************************************************************************)
(* optimize_library_json, run on a library and then on its own result.     *)
(***************************************************************************)
\* A dict without some of its keys.
Without(d, keys) == [k \in DOMAIN d \ keys |-> d[k]]

\* The page texts of the documents the sessions of a library came from.
OptimizeTexts ==
  LibraryTexts \cup {<<"Trainingseinheit 184\nSchwerpunkt: Angriff">>}

\* A session of the library file: what extract_session gave, with the page
\* images of update_library_with_page_images.
LibrarySession(sid, texts) ==
  ("source_file" :> ("TE_" \o IntToStr(sid) \o ".pdf")) @@ PackageSession(sid, texts)

\* The session lists of up to n sessions, in any order.
RECURSIVE SessionListsOf(_)
SessionListsOf(n) ==
  IF n = 0 THEN {<<>>}
  ELSE SessionListsOf(n - 1)
       \cup {Append(l, LibrarySession(sid, texts)) :
               l \in {k \in SessionListsOf(n - 1) : Len(k) = n - 1},
               sid \in SessionIds, texts \in OptimizeTexts}

\* The optional keys that the sessions, the drills and the texts of a
\* library file lack.
Shapes ==
  {[session |-> {},        drill |-> {},                 text |-> {}],
   [session |-> {"tags"},  drill |-> {"text"},           text |-> {}],
   [session |-> {},        drill |-> {"tags", "images"}, text |-> {"setup", "variations"}],
   [session |-> {"drills"}, drill |-> {},                text |-> {}]}

ShapedDrill(drill, shape) ==
  IF "text" \in shape.drill
    THEN Without(drill, shape.drill)
    ELSE [Without(drill, shape.drill) EXCEPT !["text"] = Without(drill.text, shape.text)]

ShapedSession(session, shape) ==
  IF "drills" \in shape.session
    THEN Without(session, shape.session)
    ELSE [Without(session, shape.session) EXCEPT
            !["drills"] = [j \in 1..Len(session.drills) |->
                             ShapedDrill(session.drills[j], shape)]]

ShapedSessions(sessions, shape) ==
  [i \in 1..Len(sessions) |-> ShapedSession(sessions[i], shape)]

\* The libraries optimize_library_json is given: with and without a
\* library_version, and one without sessions.
OptimizeLibraries ==
  {[library_version |-> "v4"]}
  \cup {[library_version |-> "v4", source |-> "pdf_extraction",
         sessions |-> ShapedSessions(l, shape)] :
          l \in SessionListsOf(MaxLib), shape \in Shapes}
  \cup {[sessions |-> ShapedSessions(l, shape)] :
          l \in SessionListsOf(MaxLib), shape \in Shapes}

InitOptimize ==
  /\ pc = "optimize"
  /\ title = ""
  /\ phase = ""
  /\ session_id = 0
  /\ extract_images = FALSE
  /\ doc = <<>>
  /\ drills = NoDrills
  /\ all_images = <<>>
  /\ NoUpdate
  /\ library_data \in OptimizeLibraries
  /\ files_on_disk = {}
  /\ archive_json = <<>>
  /\ manifest = <<>>
  /\ archive = <<>>
  /\ NoManifest
  /\ NoEquipment
  /\ NoCli
  /\ NoOptimize

\* optimized = optimize_library_json(library_data)
RunOptimizeLibraryJson ==
  /\ pc = "optimize"
  /\ optimized' = OptimizeLibraryJson(library_data)
  /\ pc' = "optimized"
  /\ UNCHANGED <<package_vars, classify_vars, segmenter_vars, update_vars,
                 manifest_vars, equipment_vars, cli_vars>>

\* optimize_library_json called on its own result
OptimizeAgain ==
  /\ pc = "optimized"
  /\ library_data' = optimized
  /\ optimized' = OptimizeLibraryJson(optimized)
  /\ pc' = "reoptimized"
  /\ UNCHANGED <<files_on_disk, archive_json, manifest, archive, classify_vars,
                 segmenter_vars, update_vars, manifest_vars, equipment_vars, cli_vars>>

NextOptimize == RunOptimizeLibraryJson \/ OptimizeAgain

SpecOptimize == InitOptimize /\ [][NextOptimize]_vars

(***************************************************************************)
(* Properties of update_library.                                           *)
(***************************************************************************)
Logged(kind, name) ==
  \E k \in 1..Len(log) : log[k].kind = kind /\ log[k].file = name

SessionsFrom(sessions, name) ==
  {i \in 1..Len(sessions) : sessions[i].source_file = name}

SessionsWithId(sessions, id) ==
  SelectSeq(sessions, LAMBDA x : x.id = id)

\* The files of pdf_dir whose id the loaded library does not hold.
NewFiles ==
  {n \in DOMAIN disk : HasDigits(n) /\ FileId(n) \notin existing_ids}

Extractable(n) == disk[n].openable /\ Readable(disk[n].pages)

\* C2: a PDF whose id the loaded library holds is skipped without extraction
\* and the library keeps that one record as it was; every PDF with another
\* id whose extraction succeeds adds exactly one session.
C2_SkipKnownAddNew ==
  pc = "done" =>
    /\ \A n \in DOMAIN disk :
         (HasDigits(n) /\ FileId(n) \in existing_ids) =>
           /\ Logged("skipping", n)
           /\ ~Logged("processing", n)
           /\ SessionsFrom(Saved, n) = {}
           /\ SessionsWithId(Saved, FileId(n)) = <<OldSession(FileId(n))>>
    /\ \A n \in NewFiles :
         Extractable(n) => Cardinality(SessionsFrom(Saved, n)) = 1
    /\ Len(Saved) = Cardinality(existing_ids)
                    + Cardinality({n \in NewFiles : Extractable(n)})

\* One file was skipped for its id and another one added.
C2_Witness ==
  /\ pc = "done"
  /\ \E n, m \in DOMAIN disk :
       /\ Logged("skipping", n)
       /\ Logged("extracted", m)
       /\ Len(Saved) = Cardinality(existing_ids) + 1

\* C3: no two sessions of the saved library have the same id, also when
\* several files of the batch have the same first run of digits.
C3_UniqueIds ==
  pc = "done" =>
    \A i, j \in 1..Len(Saved) : i # j => Saved[i].id # Saved[j].id

\* C4: the saved session list is sorted ascending by id.
C4_SavedSorted ==
  pc = "done" =>
    /\ writes = 1
    /\ \A i \in 1..(Len(Saved) - 1) : Saved[i].id <= Saved[i + 1].id

\* An unsorted library, and a batch with a skipped, a failed and an added
\* document, the added one with an id between those of the library.
C4_Witness ==
  /\ pc = "done"
  /\ output_path = "out.json"
  /\ Len(library_json) = 2
  /\ library_json[1].id > library_json[2].id
  /\ \E n, m, o \in DOMAIN disk :
       Logged("skipping", n) /\ Logged("error", m) /\ Logged("extracted", o)
  /\ Len(Saved) = 3
  /\ Saved[2].source_file # "library"

\* C5: a document whose opening or extraction raises gets an error that
\* names it and adds no session, the loop goes on with the next file, and
\* every other document of the batch is processed.
C5_FailureSkipsOneDocument ==
  /\ pc \in {"load", "loop", "opened", "done"}
  /\ \A k \in 1..Len(log) :
       log[k].kind = "error" =>
         /\ ~Extractable(log[k].file)
         /\ SessionsFrom(new_sessions, log[k].file) = {}
  /\ (log # <<>> /\ log[Len(log)].kind = "error" /\ pc # "done") =>
       /\ pc = "loop"
       /\ \E k \in 1..(file_pos - 1) : pdf_files[k] = log[Len(log)].file
  /\ pc = "done" =>
       \A n \in NewFiles :
         IF Extractable(n)
           THEN Logged("extracted", n) /\ Cardinality(SessionsFrom(Saved, n)) = 1
           ELSE Logged("error", n) /\ SessionsFrom(Saved, n) = {}

\* Both kinds of failure, each followed by a document that is added.
C5_Witness ==
  /\ pc = "done"
  /\ \E k \in 1..Len(log) :
       /\ log[k].kind = "error"
       /\ ~disk[log[k].file].openable
       /\ \E l \in (k + 1)..Len(log) : log[l].kind = "extracted"
  /\ \E k \in 1..Len(log) :
       /\ log[k].kind = "error"
       /\ disk[log[k].file].openable
       /\ \E l \in (k + 1)..Len(log) : log[l].kind = "extracted"

\* C6: when the next document is opened, and when the batch has ended, no
\* earlier document's handle is open.
C6_HandlesClosed ==
  /\ pc = "opened" => open_docs = {file_pos}
  /\ pc = "done" => open_docs = {}

\* C7: the documents are processed one at a time in ascending file name
\* order, and the library is written exactly once, after the last of them.
C7_InOrderOneWrite ==
  /\ writes = (IF pc = "done" THEN 1 ELSE 0)
  /\ pc = "done" =>
       \A n \in DOMAIN disk :
         HasDigits(n) => Logged("skipping", n) \/ Logged("processing", n)
  /\ \A a, b \in 1..Len(log) :
       a < b => log[a].file = log[b].file \/ StrLess(log[a].file, log[b].file)
  /\ \A k \in 1..(Len(log) - 1) :
       IF log[k].kind = "processing"
         THEN log[k + 1].file = log[k].file /\ log[k + 1].kind \in {"extracted", "error"}
         ELSE log[k + 1].file # log[k].file

\* Three documents, processed or skipped one after the other, then the write.
C7_Witness ==
  /\ pc = "done"
  /\ writes = 1
  /\ Len(pdf_files) = 3
  /\ Cardinality({log[k].file : k \in 1..Len(log)}) = 3
  /\ Cardinality({k \in 1..Len(log) : log[k].kind = "processing"}) >= 2

(***************************************************************************)
(* Properties of the segmenter, the classifier and the image association.  *)
(***************************************************************************)
RECURSIVE SumDurations(_, _)
SumDurations(ds, i) ==
  IF i = 0 THEN 0 ELSE SumDurations(ds, i - 1) + ds[i].duration_min

HasHeaderMatch == PageMatches(PageTextsOf(doc), 1) # <<>>

Segmented == pc \in {"segmented", "paged", "render_failed"}

\* C1: in the drill list extract_drills returns, each drill's cumulative_min
\* is the sum of duration_min over the drills up to and including it, and
\* cumulative_min never decreases along the list.
C1_CumulativeIsPrefixSum ==
  Segmented =>
    \A i \in 1..Len(drills) :
      /\ drills[i].cumulative_min = SumDurations(drills, i)
      /\ i > 1 => drills[i - 1].cumulative_min <= drills[i].cumulative_min

\* Matched drills on two pages, one of them of duration 0.
C1_Witness ==
  /\ pc = "segmented"
  /\ HasHeaderMatch
  /\ Len(drills) >= 3
  /\ \E i \in 2..Len(drills) :
       /\ drills[i].duration_min = 0
       /\ drills[i].cumulative_min = drills[i - 1].cumulative_min
  /\ \E i, j \in 1..Len(drills) : drills[i].source_page_start # drills[j].source_page_start

\* C8: a document without any drill-header match gets exactly the six
\* drills of the default template, all on the same origin page, 90 minutes
\* in all; the drill list is never empty.
C8_DefaultTemplate ==
  Segmented =>
    /\ drills # <<>>
    /\ ~HasHeaderMatch =>
         /\ [i \in 1..Len(drills) |-> drills[i].title]
              = <<"Einlaufen/Dehnen", "kleines Spiel", "Ballgewöhnung",
                  "Torhüter einwerfen", "Hauptteil", "Abschlussspiel">>
         /\ [i \in 1..Len(drills) |-> drills[i].phase]
              = <<"Warm-up", "Spiel", "Ballhandling", "Torhüter", "Angriff", "Spiel">>
         /\ [i \in 1..Len(drills) |-> drills[i].duration_min]
              = <<15, 10, 10, 10, 35, 10>>
         /\ SumDurations(drills, Len(drills)) = 90
         /\ \A i \in 1..Len(drills) :
              drills[i].source_page_start = drills[1].source_page_start

\* A document of two pages, with text but without a header with a duration.
C8_Witness ==
  /\ pc = "segmented"
  /\ Len(doc) = 2
  /\ doc[1].text = "Übung 1: Werfen\nText"
  /\ ~HasHeaderMatch
  /\ Len(drills) = 6

\* The keyword groups in the order the claim gives them.
GroupOrder ==
  << [phase |-> "Warm-up",      words |-> WarmupWords],
     [phase |-> "Koordination", words |-> KoordinationWords],
     [phase |-> "Ballhandling", words |-> BallhandlingWords],
     [phase |-> "Torhüter",     words |-> TorhueterWords],
     [phase |-> "Wurfserie",    words |-> WurfserieWords],
     [phase |-> "Angriff",      words |-> AngriffWords],
     [phase |-> "Abwehr",       words |-> AbwehrWords],
     [phase |-> "Spiel",        words |-> SpielWords] >>

MatchingGroups(t) ==
  {g \in 1..Len(GroupOrder) : AnyWordIn(GroupOrder[g].words, Lower(t))}

\* C9: _classify_phase returns the phase of the first keyword group, in the
\* order warm-up, coordination, ball-handling, goalkeeper, shooting-series,
\* offense, defense, game, with a keyword in the lower-cased title, and the
\* offense phase when no group matches; a title with a warm-up and an offense
\* keyword is Warm-up.
C9_FirstGroupWins ==
  pc = "classified" =>
    LET gs == MatchingGroups(title) IN
    /\ gs = {} => phase = "Angriff"
    /\ gs # {} => phase = GroupOrder[CHOOSE g \in gs : \A h \in gs : g <= h].phase
    /\ {1, 6} \subseteq gs => phase = "Warm-up"

\* A title with a warm-up keyword and, before it, an offense keyword.
C9_Witness ==
  /\ pc = "classified"
  /\ title = "Angriff Aufwärmen"
  /\ {1, 6} \subseteq MatchingGroups(title)
  /\ phase = "Warm-up"

ImagesAssociated == pc = "paged" \/ (pc = "segmented" /\ extract_images)

PositionIn(seq, x) == CHOOSE k \in 1..Len(seq) : seq[k] = x

\* C10: after image association each drill's image list holds exactly the
\* page images whose page is the drill's source_page_start, each once, in
\* page-image order; it is empty when that page has no image, and two drills
\* share an image only when they have the same source_page_start.
C10_ImagesOfOwnPage ==
  ImagesAssociated =>
    /\ \A i \in 1..Len(drills) :
         LET imgs == drills[i].images
             own  == {k \in 1..Len(all_images) :
                        all_images[k].page = drills[i].source_page_start}
         IN /\ {imgs[k] : k \in 1..Len(imgs)} = {all_images[k] : k \in own}
            /\ Len(imgs) = Cardinality(own)
            /\ \A a, b \in 1..Len(imgs) :
                 a < b => PositionIn(all_images, imgs[a]) < PositionIn(all_images, imgs[b])
            /\ own = {} => imgs = <<>>
    /\ \A i, j \in 1..Len(drills) :
         (\E a \in 1..Len(drills[i].images), b \in 1..Len(drills[j].images) :
            drills[i].images[a] = drills[j].images[b])
         => drills[i].source_page_start = drills[j].source_page_start

\* Embedded images: two drills of one page share its two images, and a drill
\* of the other page, which has no image, has none.
C10_Witness ==
  /\ pc = "segmented"
  /\ extract_images
  /\ Len(all_images) = 2
  /\ \E i, j \in 1..Len(drills) :
       /\ i # j
       /\ Len(drills[i].images) = 2
       /\ drills[i].images = drills[j].images
  /\ \E i \in 1..Len(drills) : drills[i].images = <<>>

(***************************************************************************)
(* Properties of the archive.                                              *)
(***************************************************************************)
ArchiveEntries == {archive[n] : n \in 1..Len(archive)}

\* C11: every image path the manifest of the archive lists is the name,
\* under images/, of an entry of the archive, also when the library refers
\* to image files that are missing on disk.
C11_ManifestResolves ==
  pc = "packaged" =>
    \A id \in DOMAIN manifest :
      \A k \in 1..Len(manifest[id].images) :
        ("images/" \o manifest[id].images[k]) \in ArchiveEntries

CountIn(seq, x) == Cardinality({k \in 1..Len(seq) : seq[k] = x})

PathsOf(images) == [k \in 1..Len(images) |-> images[k].path]

\* The drills of a library, as (session position, drill position) pairs.
DrillPositions(sessions) ==
  UNION {{<<i, j>> : j \in 1..Len(sessions[i].drills)} : i \in 1..Len(sessions)}

\* How often the drills of a library refer to an image path.
RECURSIVE References(_, _, _)
References(sessions, positions, p) ==
  IF positions = {} THEN 0
  ELSE LET at == CHOOSE x \in positions : TRUE IN
       CountIn(PathsOf(sessions[at[1]].drills[at[2]].images), p)
       + References(sessions, positions \ {at}, p)

\* C12: an image pair that is packaged and that the drills refer to more
\* than once gets exactly one entry of the archive, and the manifest list of
\* each drill that refers to it once holds it exactly once.
C12_OneEntryPerPair ==
  pc = "packaged" =>
    \A p \in ReferencedPaths(archive_json) \cap files_on_disk :
      References(archive_json, DrillPositions(archive_json), p) >= 2 =>
        /\ CountIn(archive, "images/" \o NewPath(p)) = 1
        /\ \A at \in DrillPositions(archive_json) :
             LET drill == archive_json[at[1]].drills[at[2]] IN
             CountIn(PathsOf(drill.images), p) = 1 =>
               /\ drill.drill_id \in DOMAIN manifest
               /\ CountIn(manifest[drill.drill_id].images, NewPath(p)) = 1

\* The archive's half of C12 alone.
OneArchiveEntryPerPair ==
  pc = "packaged" =>
    \A p \in ReferencedPaths(archive_json) \cap files_on_disk :
      CountIn(archive, "images/" \o NewPath(p)) = 1

(***************************************************************************)
(* Properties of update_manifest.                                          *)
(***************************************************************************)
\* The changelog without the entry at index 0.
Rest(list) == SubSeq(list, 2, Len(list))

\* C13: the changelog never holds two equal entries; a call whose entry the
\* changelog does not hold puts it at index 0 in front of the earlier
\* entries, which keep their order, and a call whose entry the changelog
\* holds leaves the changelog as it was.
C13_ChangelogNoDuplicates ==
  /\ [](NoDuplicates(manifest_json.changelog))
  /\ [][calls' = calls + 1 =>
          LET before == LoadedChangelog(manifest_json)
              after  == manifest_json'.changelog
              entry  == ChangelogEntry(manifest_json'.version)
          IN IF InList(entry, before)
               THEN after = before
               ELSE after # <<>> /\ after[1] = entry /\ Rest(after) = before]_vars

\* Three calls on a file with two old entries: one call added its entry in
\* front of them, one found its entry there.
C13_Witness ==
  /\ calls = 3
  /\ Len(manifest_json.changelog) = 3
  /\ manifest_json.changelog[1] = ChangelogEntry("v16")
  /\ manifest_json.changelog[3] = "v13: Erste Version"
  /\ manifest_json.version = "v14"

(***************************************************************************)
(* Properties of extract_equipment.                                        *)
(***************************************************************************)
\* C14: an equipment section whose line is the comma-separated text
\* "Hütchen, Bälle, Reifen" gives the three items Hütchen, Bälle, Reifen,
\* in that order.
C14_CommaListSplit ==
  (/\ pc = "equipped"
   /\ MaterialMatch(text).ok
   /\ MaterialMatch(text).group = "Hütchen, Bälle, Reifen")
  => equipment = <<"Hütchen", "Bälle", "Reifen">>

(***************************************************************************)
(* More properties of the segmenter.                                       *)
(***************************************************************************)
DrillsOfPage(p) == SelectSeq(drills, LAMBDA d : d.source_page_start = p)

\* C15: each header match with number n and duration d on page p of a
\* document with session id s gives one drill with drill_id "s-n",
\* duration_min d and source_page_start p; the drills are in page order and,
\* within a page, in the order of the matches; document 184 with the one
\* header "Übung 1: Aufwärmen (15 Min)" on page 1 gives exactly the drill
\* 184-1 of 15 minutes, cumulative 15, phase Warm-up, page 1.
C15_DrillPerHeader ==
  (Segmented /\ HasHeaderMatch) =>
    /\ \A p \in 1..Len(doc) :
         /\ Len(DrillsOfPage(p)) = Len(HeaderMatches[doc[p].text])
         /\ \A k \in 1..Len(DrillsOfPage(p)) :
              /\ DrillsOfPage(p)[k].drill_id
                   = IntToStr(session_id) \o "-" \o HeaderMatches[doc[p].text][k].num
              /\ DrillsOfPage(p)[k].duration_min
                   = ParseInt(HeaderMatches[doc[p].text][k].dur)
         /\ \A k \in 1..(Len(HeaderMatches[doc[p].text]) - 1) :
              HeaderMatches[doc[p].text][k].end <= HeaderMatches[doc[p].text][k + 1].end
    /\ \A k \in 1..Len(drills) : drills[k].source_page_start \in 1..Len(doc)
    /\ \A k \in 1..(Len(drills) - 1) :
         drills[k].source_page_start <= drills[k + 1].source_page_start
    /\ (session_id = 184 /\ PageTextsOf(doc) = <<"Übung 1: Aufwärmen (15 Min)">>) =>
         /\ Len(drills) = 1
         /\ drills[1].drill_id = "184-1"
         /\ drills[1].duration_min = 15
         /\ drills[1].cumulative_min = 15
         /\ drills[1].phase = "Warm-up"
         /\ drills[1].source_page_start = 1

\* Document 184 with the header of the example on page 1 and two headers on
\* page 2.
C15_Witness ==
  /\ pc = "segmented"
  /\ session_id = 184
  /\ Len(doc) = 2
  /\ doc[1].text = "Übung 1: Aufwärmen (15 Min)"
  /\ Len(drills) = 3
  /\ drills[1].drill_id = "184-1"
  /\ drills[1].cumulative_min = 15
  /\ Len(DrillsOfPage(2)) = 2

\* The cumulative counter before the drill at position k.
CumulativeBefore(k) == IF k = 1 THEN 0 ELSE drills[k - 1].cumulative_min

\* C16: a header with a drill number and a title but without a duration in
\* minutes gives a drill, of 10 minutes, that adds 10 to the cumulative
\* counter.
C16_DefaultDuration ==
  pc = "segmented" =>
    \A p \in 1..Len(doc) :
      doc[p].text = "Übung 1: Werfen\nText" =>
        \E k \in 1..Len(drills) :
          /\ drills[k].source_page_start = p
          /\ drills[k].title = "Werfen"
          /\ drills[k].duration_min = 10
          /\ drills[k].cumulative_min = CumulativeBefore(k) + 10

\* C19: the drill_id values of the drills of one session are pairwise
\* distinct, also when headers on different pages or with different marker
\* words have the same drill number.
C19_DrillIdsDistinct ==
  Segmented =>
    \A k, l \in 1..Len(drills) : k # l => drills[k].drill_id # drills[l].drill_id

(***************************************************************************)
(* Properties of the command-line tools.                                   *)
(***************************************************************************)
\* The arguments after the command that are not the flag of pdf_extractor.py.
Positionals ==
  SelectSeq(SubSeq(argv, 3, Len(argv)),
            LAMBDA a : ~(script = "pdf_extractor.py" /\ a = "--no-images"))

\* How many positional arguments a command requires.
Required ==
  IF argv[2] = "single" THEN 1
  ELSE IF script = "pdf_extractor.py" THEN 2 ELSE 3

MissingArgument ==
  \/ Len(argv) < 2
  \/ argv[2] \in {"single", "update"} /\ Len(Positionals) < Required

\* C17: when the command is missing, or single or update has fewer
\* positional arguments than it requires, the usage text is printed and the
\* process ends with a status that is not zero, before any function of the
\* tool is called.
C17_MissingArgumentUsage ==
  (pc \in {"exited", "called"} /\ MissingArgument) =>
    /\ \E k \in 1..Len(stdout) : stdout[k] = "usage"
    /\ exit_status > 0
    /\ called = NoCall

\* The part of C17 about a missing command alone.
NoCommandUsage ==
  (pc \in {"exited", "called"} /\ Len(argv) < 2) =>
    stdout = <<"usage">> /\ exit_status = 1 /\ called = NoCall

(***************************************************************************)
(* Failures on single pages.                                               *)
(***************************************************************************)
\* C18: a failure of text extraction on one page of a document makes only
\* that page's contribution empty: the document, which opens, still yields
\* its session.
C18_PageFailureIsLocal ==
  pc = "done" =>
    \A n \in NewFiles :
      (disk[n].openable /\ ~Readable(disk[n].pages)) =>
        /\ Cardinality(SessionsFrom(Saved, n)) = 1
        /\ ~Logged("error", n)

(***************************************************************************)
(* Properties of update_library_with_page_images.                          *)
(***************************************************************************)
WithoutImages(ds) == [k \in 1..Len(ds) |-> [ds[k] EXCEPT !.images = <<>>]]

\* The sessions of after are those of before, in the same order, and differ
\* from them in the images of their drills only.
SameButImages(before, after) ==
  /\ Len(after) = Len(before)
  /\ \A i \in 1..Len(before) :
       /\ after[i].source_file = before[i].source_file
       /\ after[i].id = before[i].id
       /\ DOMAIN after[i] = DOMAIN before[i]
       /\ WithoutImages(after[i].drills) = WithoutImages(before[i].drills)

\* C20: update_library_with_page_images changes nothing in the library but
\* the images of drills of sessions for which a PDF with the same id was
\* processed: sessions and drills are neither added nor removed nor
\* reordered, every other field stays, a session without a matching PDF
\* stays as it was, and a PDF whose id the library does not hold adds no
\* session.
C20_OnlyImagesChange ==
  /\ pc \in {"images_loop", "images_failed"} =>
       /\ SameButImages(library_json, library)
       /\ \A i \in 1..Len(library) :
            (\A n \in DOMAIN disk :
               ~(HasDigits(n) /\ FileId(n) = library[i].id /\ Logged("extracted", n)))
            => library[i] = library_json[i]
       /\ writes = 0 /\ output_json = <<>>
  /\ pc = "images_done" =>
       /\ SameButImages(library_json, output_json)
       /\ \A i \in 1..Len(output_json) :
            (\A n \in DOMAIN disk :
               ~(HasDigits(n) /\ FileId(n) = output_json[i].id /\ Logged("extracted", n)))
            => output_json[i] = library_json[i]
       /\ \A n \in DOMAIN disk :
            Logged("skipping", n) => FileId(n) \notin SessionIdsOf(output_json)

\* A library of two sessions: the PDF of the first was processed and gave
\* its drills images, the second has no PDF, and a PDF whose id the library
\* does not hold was skipped.
C20_Witness ==
  /\ pc = "images_done"
  /\ Len(library_json) = 2
  /\ library_json[1].id = 184 /\ library_json[2].id = 200
  /\ Logged("extracted", "TE_184.pdf")
  /\ Logged("skipping", "TE_7.pdf")
  /\ output_json[1] # library_json[1]
  /\ output_json[2] = library_json[2]
  /\ \E k \in 1..Len(output_json[1].drills) : output_json[1].drills[k].images # <<>>

(***************************************************************************)
(* The default template and the classifier.                                *)
(***************************************************************************)
\* C22: for each of the six entries of the default template, the classifier
\* run on the title of the entry gives the phase the template presets for
\* that entry.
C22_TemplateAgreesWithClassifier ==
  pc = "classified" =>
    \A k \in 1..Len(DefaultPhases) :
      title = DefaultPhases[k][1] => phase = DefaultPhases[k][2]

\* The classifier has run on the goalkeeper entry of the template.
C22_Witness ==
  /\ pc = "classified"
  /\ Len(DefaultPhases) = 6
  /\ title = DefaultPhases[4][1]
  /\ title = "Torhüter einwerfen"
  /\ phase = "Torhüter"

(***************************************************************************)
(* Properties of optimize_library_json.                                    *)
(***************************************************************************)
DrillPreserved(before, after) ==
  /\ after.drill_id = before.drill_id
  /\ after.title = before.title
  /\ after.duration_min = before.duration_min
  /\ after.phase = before.phase
  /\ after.images = Get(before, "images", <<>>)

DrillsPreserved(before, after) ==
  /\ Len(after) = Len(before)
  /\ \A j \in 1..Len(before) : DrillPreserved(before[j], after[j])

SessionPreserved(before, after) ==
  /\ after.id = before.id
  /\ after.title = before.title
  /\ after.duration_total_min = before.duration_total_min
  /\ DrillsPreserved(Get(before, "drills", <<>>), after.drills)

SessionsPreserved(before, after) ==
  /\ Len(after) = Len(before)
  /\ \A i \in 1..Len(before) : SessionPreserved(before[i], after[i])

\* C21: the result of optimize_library_json has the sessions of its argument
\* in the same number and order, each with its id, title and duration and
\* with its drills in the same number and order, each drill with its id,
\* title, duration, phase and image list; and optimize_library_json run on
\* its own result gives that result again.
C21_OptimizePreservesAndIsIdempotent ==
  /\ pc \in {"optimized", "reoptimized"} =>
       SessionsPreserved(Get(library_data, "sessions", <<>>), optimized.sessions)
  /\ pc = "reoptimized" => optimized = library_data

\* The function has run on its own result for a library of two sessions
\* with different ids, one with several drills and page images.
C21_Witness ==
  /\ pc = "reoptimized"
  /\ optimized = library_data
  /\ Len(optimized.sessions) = 2
  /\ optimized.sessions[1].id # optimized.sessions[2].id
  /\ Len(optimized.sessions[1].drills) > 1
  /\ optimized.sessions[1].drills[1].images # <<>>
  /\ optimized.sessions[1].drills[1].title # optimized.sessions[1].drills[2].title

=============================================================================
